---- MODULE Spec2Model ----
(***************************************************************************)
(* Context Hub scripts of ios-template (.context/scripts): the task        *)
(* relevance scoring and digest assembly of generate_claude_context.py,    *)
(* the markdown rule parser of rules_indexer.py and the project scan of    *)
(* scanner.py.  Text is modelled as sequences of one-character strings,    *)
(* so that substring tests, lower-casing and stripping are computed.       *)
(***************************************************************************)
EXTENDS Integers, Sequences, FiniteSets, TLC

(***************************************************************************)
(* Bounds of the model.                                                    *)
(***************************************************************************)
\* number of keywords appended to a task in the interactive loop
MaxAdded == 2

(***************************************************************************)
(* Text helpers (Python str semantics on sequences of characters).         *)
(***************************************************************************)
\* str.lower() restricted to the ASCII letters the model's texts use
UpperToLower ==
  [c \in {"A","B","C","D","E","F","G","H","I","J","K","L","M","N","O","P",
          "Q","R","S","T","U","V","W","X","Y","Z"} |->
     CASE c = "A" -> "a" [] c = "B" -> "b" [] c = "C" -> "c" [] c = "D" -> "d"
       [] c = "E" -> "e" [] c = "F" -> "f" [] c = "G" -> "g" [] c = "H" -> "h"
       [] c = "I" -> "i" [] c = "J" -> "j" [] c = "K" -> "k" [] c = "L" -> "l"
       [] c = "M" -> "m" [] c = "N" -> "n" [] c = "O" -> "o" [] c = "P" -> "p"
       [] c = "Q" -> "q" [] c = "R" -> "r" [] c = "S" -> "s" [] c = "T" -> "t"
       [] c = "U" -> "u" [] c = "V" -> "v" [] c = "W" -> "w" [] c = "X" -> "x"
       [] c = "Y" -> "y" [] c = "Z" -> "z"]

lower(s) ==
  [i \in 1..Len(s) |-> IF s[i] \in DOMAIN UpperToLower THEN UpperToLower[s[i]] ELSE s[i]]

\* the Python test (k in s) on strings
Contains(k, s) ==
  \E i \in 1..(Len(s) - Len(k) + 1) : \A j \in 1..Len(k) : s[i + j - 1] = k[j]

(***************************************************************************)
(* Rational numbers <<n, d>>, d > 0, for the relevance scores.             *)
(***************************************************************************)
RatLeq(a, b) == a[1] * b[2] <= b[1] * a[2]
RatLess(a, b) == a[1] * b[2] < b[1] * a[2]
RatEq(a, b) == a[1] * b[2] = b[1] * a[2]
RatDiv(a, b) == <<a[1] * b[2], a[2] * b[1]>>

(***************************************************************************)
(* generate_claude_context.py: analyze_task                                *)
(***************************************************************************)
\* module_keywords, in dict insertion order
ModuleOrder ==
  <<"Core", "Features", "Services", "Theme", "Network", "Storage", "Monetization", "Utilities">>

AllModules == {ModuleOrder[i] : i \in 1..Len(ModuleOrder)}

module_keywords ==
  [ Core |->
      \* Core: state, reducer, action, store, tca, architecture, config
      << <<"s","t","a","t","e">>,
         <<"r","e","d","u","c","e","r">>,
         <<"a","c","t","i","o","n">>,
         <<"s","t","o","r","e">>,
         <<"t","c","a">>,
         <<"a","r","c","h","i","t","e","c","t","u","r","e">>,
         <<"c","o","n","f","i","g">> >>,
    Features |->
      \* Features: screen, view, feature, user interface, ui, page, onboarding, auth, settings, home, profile
      << <<"s","c","r","e","e","n">>,
         <<"v","i","e","w">>,
         <<"f","e","a","t","u","r","e">>,
         <<"u","s","e","r"," ","i","n","t","e","r","f","a","c","e">>,
         <<"u","i">>,
         <<"p","a","g","e">>,
         <<"o","n","b","o","a","r","d","i","n","g">>,
         <<"a","u","t","h">>,
         <<"s","e","t","t","i","n","g","s">>,
         <<"h","o","m","e">>,
         <<"p","r","o","f","i","l","e">> >>,
    Services |->
      \* Services: service, api, business, logic, manager, firebase, analytics
      << <<"s","e","r","v","i","c","e">>,
         <<"a","p","i">>,
         <<"b","u","s","i","n","e","s","s">>,
         <<"l","o","g","i","c">>,
         <<"m","a","n","a","g","e","r">>,
         <<"f","i","r","e","b","a","s","e">>,
         <<"a","n","a","l","y","t","i","c","s">> >>,
    Theme |->
      \* Theme: theme, color, style, dark mode, typography, design, spacing
      << <<"t","h","e","m","e">>,
         <<"c","o","l","o","r">>,
         <<"s","t","y","l","e">>,
         <<"d","a","r","k"," ","m","o","d","e">>,
         <<"t","y","p","o","g","r","a","p","h","y">>,
         <<"d","e","s","i","g","n">>,
         <<"s","p","a","c","i","n","g">> >>,
    Network |->
      \* Network: network, api, request, http, endpoint, fetch, moya
      << <<"n","e","t","w","o","r","k">>,
         <<"a","p","i">>,
         <<"r","e","q","u","e","s","t">>,
         <<"h","t","t","p">>,
         <<"e","n","d","p","o","i","n","t">>,
         <<"f","e","t","c","h">>,
         <<"m","o","y","a">> >>,
    Storage |->
      \* Storage: storage, database, cache, persist, save, keychain, userdefaults
      << <<"s","t","o","r","a","g","e">>,
         <<"d","a","t","a","b","a","s","e">>,
         <<"c","a","c","h","e">>,
         <<"p","e","r","s","i","s","t">>,
         <<"s","a","v","e">>,
         <<"k","e","y","c","h","a","i","n">>,
         <<"u","s","e","r","d","e","f","a","u","l","t","s">> >>,
    Monetization |->
      \* Monetization: iap, purchase, subscription, admob, ads, revenue, appsflyer
      << <<"i","a","p">>,
         <<"p","u","r","c","h","a","s","e">>,
         <<"s","u","b","s","c","r","i","p","t","i","o","n">>,
         <<"a","d","m","o","b">>,
         <<"a","d","s">>,
         <<"r","e","v","e","n","u","e">>,
         <<"a","p","p","s","f","l","y","e","r">> >>,
    Utilities |->
      \* Utilities: extension, helper, utility, util, common
      << <<"e","x","t","e","n","s","i","o","n">>,
         <<"h","e","l","p","e","r">>,
         <<"u","t","i","l","i","t","y">>,
         <<"u","t","i","l">>,
         <<"c","o","m","m","o","n">> >> ]

\* sum(1 for keyword in keywords if keyword in task_lower)
MatchCount(m, task_lower) ==
  Cardinality({i \in 1..Len(module_keywords[m]) : Contains(module_keywords[m][i], task_lower)})

\* a relevance map is a sequence of [module, score] items in insertion order
Keys(scores) == {scores[i].module : i \in 1..Len(scores)}
ScoreOf(scores, m) == (CHOOSE i \in 1..Len(scores) : scores[i].module = m)
ItemScore(scores, m) == scores[ScoreOf(scores, m)].score

\* relevance_scores[module] = score / len(keywords), for score > 0
RawScores(task_lower) ==
  SelectSeq([i \in 1..Len(ModuleOrder) |->
               [module |-> ModuleOrder[i],
                score |-> <<MatchCount(ModuleOrder[i], task_lower),
                            Len(module_keywords[ModuleOrder[i]])>>]],
            LAMBDA item : item.score[1] > 0)

\* max(relevance_scores.values())
MaxScore(scores) ==
  scores[CHOOSE i \in 1..Len(scores) :
           \A j \in 1..Len(scores) : RatLeq(scores[j].score, scores[i].score)].score

\* slip: the scores are returned without dividing by the maximum
NormalizeSkipped(scores) == scores

\* {k: v/max_score for k, v in relevance_scores.items()}
Normalize(scores) ==
  IF Len(scores) = 0 THEN scores
  ELSE [i \in 1..Len(scores) |->
          [module |-> scores[i].module, score |-> RatDiv(scores[i].score, MaxScore(scores))]]

\* the fixed score of a force-included Core
CoreDefaultScore == <<3, 10>>

\* slip: Core is added even when no module matched
IncludeCoreAlways(scores) ==
  IF "Core" \notin Keys(scores)
    THEN Append(scores, [module |-> "Core", score |-> CoreDefaultScore])
    ELSE scores

\* slip: Core is set to the default score even when it matched a keyword
IncludeCoreOverwrite(scores) ==
  IF Len(scores) = 0 THEN scores
  ELSE SelectSeq(scores, LAMBDA item : item.module # "Core")
         \o << [module |-> "Core", score |-> CoreDefaultScore] >>

\* if relevance_scores and 'Core' not in relevance_scores: ... = 0.3
IncludeCore(scores) ==
  IF Len(scores) > 0 /\ "Core" \notin Keys(scores)
    THEN Append(scores, [module |-> "Core", score |-> CoreDefaultScore])
    ELSE scores

\* relevance_scores = {'Core': 1.0, 'Features': 0.5}
GeneralContext ==
  << [module |-> "Core", score |-> <<1, 1>>], [module |-> "Features", score |-> <<1, 2>>] >>

\* sorted(relevance_scores.items(), key=lambda x: x[1], reverse=True): stable
InsertDesc(x, s) ==
  LET before == {i \in 1..Len(s) : RatLeq(x.score, s[i].score)}
      n == Cardinality({i \in 1..Len(s) : \A k \in 1..i : k \in before})
  IN  SubSeq(s, 1, n) \o <<x>> \o SubSeq(s, n + 1, Len(s))

\* slip: the items are left in insertion order
SortSkipped(s) == s

RECURSIVE SortDesc(_)
SortDesc(s) ==
  IF Len(s) = 0 THEN s
  ELSE CHOOSE r \in { InsertDesc(s[Len(s)], sorted) :
                        sorted \in {SortDesc(SubSeq(s, 1, Len(s) - 1))} } : TRUE

(***************************************************************************)
(* Task descriptions.                                                      *)
(***************************************************************************)
Tasks ==
  [ dark_mode |->
      \* "Add dark mode toggle to Settings screen"
      <<"A","d","d"," ","d","a","r","k"," ","m","o","d","e"," ","t","o","g","g","l","e"," ","t","o"," ","S","e","t","t","i","n","g","s"," ","s","c","r","e","e","n">>,
    no_keyword |->
      \* "Fix crash"
      <<"F","i","x"," ","c","r","a","s","h">>,
    theme |->
      \* "theme color style design"
      <<"t","h","e","m","e"," ","c","o","l","o","r"," ","s","t","y","l","e"," ","d","e","s","i","g","n">>,
    auth |->
      \* "Implement user authentication with Firebase"
      <<"I","m","p","l","e","m","e","n","t"," ","u","s","e","r"," ","a","u","t","h","e","n","t","i","c","a","t","i","o","n"," ","w","i","t","h"," ","F","i","r","e","b","a","s","e">>,
    many |->
      \* "store api cache theme screen util ads"
      <<"s","t","o","r","e"," ","a","p","i"," ","c","a","c","h","e"," ","t","h","e","m","e"," ","s","c","r","e","e","n"," ","u","t","i","l"," ","a","d","s">> ]

BaseTasks == {Tasks.dark_mode, Tasks.no_keyword, Tasks.theme, Tasks.auth}

\* keywords a user appends to the description: state, api, screen, util, dark mode
AddedKeywords ==
  { <<"s","t","a","t","e">>, <<"a","p","i">>, <<"s","c","r","e","e","n">>,
    <<"u","t","i","l">>, <<"d","a","r","k"," ","m","o","d","e">> }

VARIABLES
  task,              \* task_description of the current generate_context call
  task_lower,        \* analyze_task: task_lower
  pc,                \* position inside the running operation
  relevance_scores,  \* generate_context: relevance_scores
  relevant_modules,  \* generate_context: relevant_modules (ranked items)
  prev_task,         \* task of the previous loop iteration of interactive_mode
  prev_scores,       \* relevance map ranked in the previous iteration
  n_added,           \* number of descriptions entered after the first
  max_tokens,        \* self.max_tokens (config context_limits.claude_max_tokens)
  modules_dir,       \* .context/modules/<name>.json: name -> module summary
  rules_json,        \* .context/rules.json
  quick_reference,   \* .context/quick_reference.json
  claude_context_md, \* .context/generated/.claude_context.md
  claude_context_bak,\* .context/generated/.claude_context.md.bak
  saved,             \* contexts passed to the save_context calls that returned
  rules_dir,         \* .ai/rules: the markdown documents (config rules.source_path)
  patterns_json,     \* .context/patterns.json
  symbols_json,      \* .context/cache/symbols.json
  index_json,        \* .context/index.json
  required_paths,    \* whether .context, config.json and the source folder exist
  rule_files,        \* index_all_rules: rule_files, in the order glob yields them
  rfile_i,           \* index_all_rules: position of file_path in rule_files
  all_rules,         \* index_all_rules: all_rules
  all_patterns,      \* index_all_rules: all_patterns (categories in insertion order)
  encountered,       \* every rule in the order the loop of line 174 met it
  stats,             \* MasterIndexer.stats
  result,            \* what MasterIndexer.run returned ("None" while it runs)
  runs,              \* number of orchestrator processes started so far
  context_parts,     \* generate_context: context_parts
  token_count,       \* generate_context: token_count
  mod_i,             \* index of the module loop over relevant_modules[:5]
  rules,             \* generate_context: rules (result of load_rules)
  rule_i,            \* index of the rule loop over rules[:12]
  content,           \* parse_markdown_rule: lines of content.split('\n')
  line_i,            \* index of the line the parser loop is at
  current_category,  \* parse_markdown_rule: current_category
  current_priority,  \* parse_markdown_rule: current_priority
  rule_list,         \* parse_markdown_rule: rules
  swift_files,       \* scan_project: swift_files (result of rglob("*.swift"))
  file_i,            \* index of the file loop over swift_files
  modules,           \* scan_project: modules (records in insertion order)
  all_symbols        \* scan_project: all_symbols (symbol -> file path)

taskVars == <<task, task_lower, relevance_scores, relevant_modules, prev_task, prev_scores, n_added>>
scoreVars == <<task, task_lower, pc, relevance_scores, relevant_modules, prev_task, prev_scores, n_added>>
saveVars == <<claude_context_md, claude_context_bak, saved>>
fileVars == <<rules_dir, patterns_json, symbols_json, index_json, required_paths>>
diskVars == <<max_tokens, modules_dir, rules_json, quick_reference, saveVars, fileVars>>
indexVars == <<rule_files, rfile_i, all_rules, all_patterns, encountered>>
runVars == <<stats, result, runs>>
genVars == <<context_parts, token_count, mod_i, rules, rule_i>>
parseVars == <<content, line_i, current_category, current_priority, rule_list>>
scanVars == <<swift_files, file_i, modules, all_symbols>>
vars == <<scoreVars, diskVars, genVars, parseVars, scanVars, indexVars, runVars>>

(***************************************************************************)
(* analyze_task, and generate_context lines 112-119: fallback, ranking.     *)
(***************************************************************************)
\* analyze_task line 36
LowerTask ==
  /\ pc = "start"
  /\ task_lower' = lower(task)
  /\ pc' = "scoring"
  /\ UNCHANGED <<task, relevance_scores, relevant_modules, prev_task, prev_scores, n_added,
                 diskVars, indexVars, runVars, parseVars, genVars, scanVars>>

\* analyze_task lines 50-56
ScoreModules ==
  /\ pc = "scoring"
  /\ relevance_scores' = RawScores(task_lower)
  /\ pc' = "normalizing"
  /\ UNCHANGED <<task, task_lower, relevant_modules, prev_task, prev_scores, n_added,
                 diskVars, indexVars, runVars, parseVars, genVars, scanVars>>

\* analyze_task lines 58-61
NormalizeScores ==
  /\ pc = "normalizing"
  /\ relevance_scores' = Normalize(relevance_scores)
  /\ pc' = "including_core"
  /\ UNCHANGED <<task, task_lower, relevant_modules, prev_task, prev_scores, n_added,
                 diskVars, indexVars, runVars, parseVars, genVars, scanVars>>

\* analyze_task lines 63-67 and the assignment of line 112
AlwaysIncludeCore ==
  /\ pc = "including_core"
  /\ relevance_scores' = IncludeCore(relevance_scores)
  /\ pc' = "analyzed"
  /\ UNCHANGED <<task, task_lower, relevant_modules, prev_task, prev_scores, n_added,
                 diskVars, indexVars, runVars, parseVars, genVars, scanVars>>

\* lines 114-116
UseGeneralContext ==
  /\ pc = "analyzed"
  /\ relevance_scores' = IF Len(relevance_scores) = 0 THEN GeneralContext ELSE relevance_scores
  /\ pc' = "scored"
  /\ UNCHANGED <<task, task_lower, relevant_modules, prev_task, prev_scores, n_added, diskVars, indexVars, runVars, parseVars, genVars, scanVars>>

SortModules ==
  /\ pc = "scored"
  /\ relevant_modules' = SortDesc(relevance_scores)
  /\ pc' = "ranked"
  /\ UNCHANGED <<task, task_lower, relevance_scores, prev_task, prev_scores, n_added, diskVars, indexVars, runVars, parseVars, genVars, scanVars>>

(***************************************************************************)
(* interactive_mode: the user enters the previous description with one     *)
(* more keyword appended.                                                  *)
(***************************************************************************)
NextTask(k) ==
  /\ pc = "ranked"
  /\ n_added < MaxAdded
  /\ task' = task \o <<" ">> \o k
  /\ prev_task' = task
  /\ prev_scores' = relevance_scores
  /\ n_added' = n_added + 1
  /\ pc' = "start"
  /\ task_lower' = <<>>
  /\ relevance_scores' = <<>>
  /\ relevant_modules' = <<>>
  /\ UNCHANGED <<diskVars, indexVars, runVars, genVars, parseVars, scanVars>>

\* the generated directory holds no digest, and no digest has been saved
NoSave ==
  /\ claude_context_md = [exists |-> FALSE]
  /\ claude_context_bak = [exists |-> FALSE]
  /\ saved = <<>>

\* nothing has been indexed and no orchestrator has run
NoRun ==
  /\ rules_dir = [exists |-> FALSE]
  /\ patterns_json = [exists |-> FALSE]
  /\ symbols_json = [exists |-> FALSE]
  /\ index_json = [exists |-> FALSE]
  /\ required_paths = TRUE
  /\ rule_files = <<>>
  /\ rfile_i = 0
  /\ all_rules = <<>>
  /\ all_patterns = <<>>
  /\ encountered = <<>>
  /\ stats = [modules_indexed |-> 0, rules_indexed |-> 0, files_processed |-> 0, errors |-> <<>>]
  /\ result = [success |-> "None", exit_code |-> "None"]
  /\ runs = 0

\* no task is being analysed
NoTask ==
  /\ task = <<>>
  /\ task_lower = <<>>
  /\ relevance_scores = <<>>
  /\ relevant_modules = <<>>
  /\ prev_task = <<>>
  /\ prev_scores = <<>>
  /\ n_added = 0

\* no source tree is being scanned
NoScan ==
  /\ swift_files = <<>>
  /\ file_i = 0
  /\ modules = <<>>
  /\ all_symbols = <<>>

\* no document is persisted and no digest is being assembled
NoDisk ==
  /\ max_tokens = 0
  /\ modules_dir = <<>>
  /\ rules_json = [exists |-> FALSE]
  /\ quick_reference = [exists |-> FALSE]
  /\ NoSave
  /\ NoRun

\* no rule document is being parsed
NoParse ==
  /\ content = <<>>
  /\ line_i = 0
  /\ current_category = <<>>
  /\ current_priority = ""
  /\ rule_list = <<>>

NoGen ==
  /\ context_parts = <<>>
  /\ token_count = 0
  /\ mod_i = 0
  /\ rules = <<>>
  /\ rule_i = 0

InitScore ==
  /\ task \in BaseTasks
  /\ pc = "start"
  /\ task_lower = <<>>
  /\ relevance_scores = <<>>
  /\ relevant_modules = <<>>
  /\ prev_task = <<>>
  /\ prev_scores = <<>>
  /\ n_added = 0
  /\ NoDisk
  /\ NoGen
  /\ NoParse
  /\ NoScan

NextScore ==
  \/ LowerTask
  \/ ScoreModules
  \/ NormalizeScores
  \/ AlwaysIncludeCore
  \/ UseGeneralContext
  \/ SortModules
  \/ \E k \in AddedKeywords : NextTask(k)

SpecScore == InitScore /\ [][NextScore]_vars

(***************************************************************************)
(* Persisted documents read by generate_context.                           *)
(***************************************************************************)
\* a text of n characters c
Rep(c, n) == [i \in 1..n |-> c]

\* scanner.py get_module_purpose (the letter a-grave is written a)
get_module_purpose(module_name) ==
  CASE module_name = "Core" ->
       \* TCA foundation - State, Actions, Reducers, Store, ViewConfigs
       <<"T","C","A"," ","f","o","u","n","d","a","t","i","o","n"," ","-"," ","S","t","a","t","e",","," ","A","c","t","i","o","n","s",","," ","R","e","d","u","c","e","r","s",","," ","S","t","o","r","e",","," ","V","i","e","w","C","o","n","f","i","g","s">>
    [] module_name = "Features" ->
       \* UI features - Onboarding, Auth, Settings, Home, Profile
       <<"U","I"," ","f","e","a","t","u","r","e","s"," ","-"," ","O","n","b","o","a","r","d","i","n","g",","," ","A","u","t","h",","," ","S","e","t","t","i","n","g","s",","," ","H","o","m","e",","," ","P","r","o","f","i","l","e">>
    [] module_name = "Services" ->
       \* Business logic va external services integrations
       <<"B","u","s","i","n","e","s","s"," ","l","o","g","i","c"," ","v","a"," ","e","x","t","e","r","n","a","l"," ","s","e","r","v","i","c","e","s"," ","i","n","t","e","g","r","a","t","i","o","n","s">>
    [] module_name = "Theme" ->
       \* UI theming - Colors, Typography, Spacing, Component styles
       <<"U","I"," ","t","h","e","m","i","n","g"," ","-"," ","C","o","l","o","r","s",","," ","T","y","p","o","g","r","a","p","h","y",","," ","S","p","a","c","i","n","g",","," ","C","o","m","p","o","n","e","n","t"," ","s","t","y","l","e","s">>
    [] module_name = "Network" ->
       \* API clients va networking layer
       <<"A","P","I"," ","c","l","i","e","n","t","s"," ","v","a"," ","n","e","t","w","o","r","k","i","n","g"," ","l","a","y","e","r">>
    [] module_name = "Storage" ->
       \* Data persistence - UserDefaults, Keychain, FileStorage
       <<"D","a","t","a"," ","p","e","r","s","i","s","t","e","n","c","e"," ","-"," ","U","s","e","r","D","e","f","a","u","l","t","s",","," ","K","e","y","c","h","a","i","n",","," ","F","i","l","e","S","t","o","r","a","g","e">>
    [] module_name = "Monetization" ->
       \* IAP, AdMob, Revenue tracking, Analytics
       <<"I","A","P",","," ","A","d","M","o","b",","," ","R","e","v","e","n","u","e"," ","t","r","a","c","k","i","n","g",","," ","A","n","a","l","y","t","i","c","s">>
    [] module_name = "Utilities" ->
       \* Helper functions, extensions, utilities
       <<"H","e","l","p","e","r"," ","f","u","n","c","t","i","o","n","s",","," ","e","x","t","e","n","s","i","o","n","s",","," ","u","t","i","l","i","t","i","e","s">>
    [] module_name = "Misc" ->
       \* Other files
       <<"O","t","h","e","r"," ","f","i","l","e","s">>
    [] OTHER ->
       \* Miscellaneous files
       <<"M","i","s","c","e","l","l","a","n","e","o","u","s"," ","f","i","l","e","s">>

\* a module summary as save_module_data writes it, for a module with nfiles
\* files of loc lines in all, nsym key symbols and ndeps dependencies
ModuleSummary(name, nfiles, loc, nsym, ndeps, textlen) ==
  [name |-> name,
   purpose |-> get_module_purpose(name),
   total_files |-> nfiles,
   total_loc |-> loc,
   key_symbols |-> [i \in 1..(IF nsym < 10 THEN nsym ELSE 10) |-> Rep("s", textlen)],
   dependencies |-> [i \in 1..(IF ndeps < 10 THEN ndeps ELSE 10) |-> Rep("d", textlen)],
   files |-> [i \in 1..(IF nfiles < 20 THEN nfiles ELSE 20) |-> Rep("f", textlen)]]

\* the modules/ folders digests are assembled from: small summaries or large ones
ModuleDirs ==
  LET PersistedModuleSets ==
        { {}, {"Core", "Features"}, {"Theme", "Misc"}, AllModules \cup {"Misc"} }
  IN  { [m \in P |-> ModuleSummary(m, 1, 12, 1, 0, 10)] : P \in PersistedModuleSets } \cup
      { [m \in P |-> ModuleSummary(m, 25, 12345, 10, 3, 24)] : P \in PersistedModuleSets }

\* rules as index_all_rules buckets them; texts differ in their first character
RuleRecord(priority, tag, textlen) ==
  [text |-> Rep(tag, textlen), category |-> <<"g","e","n","e","r","a","l">>,
   priority |-> priority, source_file |-> "rules.md"]

RulesDoc(ncritical, nhigh, textlen) ==
  LET RuleTags == <<"a", "b", "c", "d", "e", "f", "g">>
  IN
  [exists |-> TRUE,
   critical |-> [i \in 1..ncritical |-> RuleRecord("critical", RuleTags[i], textlen)],
   high |-> [i \in 1..nhigh |-> RuleRecord("high", RuleTags[i], textlen)],
   medium |-> <<>>,
   low |-> <<>>]

RulesDocs ==
  { [exists |-> FALSE], RulesDoc(0, 0, 0), RulesDoc(3, 2, 40), RulesDoc(7, 6, 200) }

\* s[:n]
Take(s, n) == SubSeq(s, 1, IF Len(s) < n THEN Len(s) ELSE n)

\* rules_indexer.py create_quick_reference: the highlight list
create_quick_reference(r) ==
  [exists |-> TRUE,
   top_rules |->
     Take([i \in 1..Len(Take(r.critical, 5)) |-> r.critical[i].text]
            \o [i \in 1..Len(Take(r.high, 3)) |-> r.high[i].text], 5)]

Budgets == {300, 500, 1000, 8000}

\* tasks for which digests are assembled
GenTasks == {Tasks.dark_mode, Tasks.no_keyword, Tasks.theme, Tasks.many}

(***************************************************************************)
(* generate_context: text sizes.  A part of the digest is kept as its      *)
(* kind, what it refers to and its length in characters.                   *)
(***************************************************************************)
\* len(str(n)) for n >= 0
RECURSIVE Digits(_)
Digits(n) == IF n < 10 THEN 1 ELSE 1 + Digits(n \div 10)

\* len(f"{n:,}")
CommaLen(n) == Digits(n) + (Digits(n) - 1) \div 3

\* len(f"{score:.0%}"): the rounded percentage and the % sign
PercentLen(score) == Digits((200 * score[1] + score[2]) \div (2 * score[2])) + 1

RECURSIVE SumLen(_)
SumLen(texts) ==
  IF Len(texts) = 0 THEN 0 ELSE Len(texts[1]) + SumLen(Tail(texts))

\* len(sep.join(texts)) for a separator of seplen characters
JoinLen(texts, seplen) ==
  IF Len(texts) = 0 THEN 0 ELSE SumLen(texts) + seplen * (Len(texts) - 1)

\* estimate_tokens, applied to the length of the text
estimate_tokens(textlen) == textlen \div 4

\* lengths of the fixed text of each part of the digest
FixedLen ==
  [ header |->
      \* characters of the header besides the task (the timestamp has 16)
      816,
    modules_title |->
      \* "## Relevant Modules" title
      23,
    module_section |->
      \* characters of a module section besides its fields
      137,
    rules_title |->
      \* "---  ## CRITICAL RULES" title
      28,
    rule |->
      \* characters of a rule line besides number, priority and text
      11,
    quick_ref_title |->
      \* "---  ## Quick Reference" title
      28,
    top_rules_title |->
      \* "**Most Important Rules**:" line
      26,
    top_rule |->
      \* characters of a quick reference line besides the rule
      3,
    footer |->
      \* characters of the instructions besides task and token count
      797 ]

HeaderLen(t) == FixedLen.header + Len(t)

ModuleSectionLen(module_name, score, module_data) ==
  LET deps == JoinLen(Take(module_data.dependencies, 5), 2)
      files == Take(module_data.files, 6)
  IN  FixedLen.module_section
        + Len(module_name) + PercentLen(score)
        + Len(module_data.purpose)
        + Digits(module_data.total_files)
        + CommaLen(module_data.total_loc)
        + JoinLen(Take(module_data.key_symbols, 8), 2)
        + (IF deps = 0 THEN 4 ELSE deps)
        + (IF Len(files) = 0 THEN 0 ELSE SumLen(files) + 2 * Len(files) + (Len(files) - 1))

RuleTextLen(i, rule) == Digits(i) + FixedLen.rule + Len(rule.priority) + Len(rule.text)

FooterLen(t, tokens) == FixedLen.footer + Len(t) + CommaLen(tokens)

Part(kind, ref, len) == [kind |-> kind, ref |-> ref, len |-> len]

\* slip: the buckets are read without the cut at 5 per priority
load_rules_uncut ==
  IF ~rules_json.exists THEN <<>>
  ELSE rules_json.critical \o rules_json.high

\* load_rules(['critical', 'high'])
load_rules ==
  IF ~rules_json.exists THEN <<>>
  ELSE Take(rules_json.critical, 5) \o Take(rules_json.high, 5)

\* len(''.join(context_parts))
RECURSIVE PartsLen(_)
PartsLen(parts) == IF Len(parts) = 0 THEN 0 ELSE parts[1].len + PartsLen(Tail(parts))

(***************************************************************************)
(* generate_context, lines 123-261: assembly of the digest.                *)
(***************************************************************************)
\* lines 126-173
Header ==
  /\ pc = "ranked"
  /\ context_parts' = << Part("header", "task", HeaderLen(task)),
                         Part("modules_title", "", FixedLen.modules_title) >>
  /\ token_count' = estimate_tokens(HeaderLen(task))
  /\ mod_i' = 1
  /\ pc' = "modules"
  /\ UNCHANGED <<task, task_lower, relevance_scores, relevant_modules, prev_task, prev_scores, n_added,
                 diskVars, indexVars, runVars, parseVars, rules, rule_i, scanVars>>

\* line 175: relevant_modules[:5] is exhausted
ModuleLoopEnd ==
  /\ pc = "modules"
  /\ mod_i > Len(Take(relevant_modules, 5))
  /\ pc' = "rules_title"
  /\ UNCHANGED <<task, task_lower, relevance_scores, relevant_modules, prev_task, prev_scores, n_added,
                 diskVars, indexVars, runVars, parseVars, genVars, scanVars>>

\* lines 176-177
ModuleBreak ==
  /\ pc = "modules"
  /\ mod_i <= Len(Take(relevant_modules, 5))
  /\ 10 * token_count > 6 * max_tokens
  /\ pc' = "rules_title"
  /\ UNCHANGED <<task, task_lower, relevance_scores, relevant_modules, prev_task, prev_scores, n_added,
                 diskVars, indexVars, runVars, parseVars, genVars, scanVars>>

\* lines 179-199, module document present
ModuleAppend ==
  /\ pc = "modules"
  /\ mod_i <= Len(Take(relevant_modules, 5))
  /\ ~(10 * token_count > 6 * max_tokens)
  /\ relevant_modules[mod_i].module \in DOMAIN modules_dir
  /\ LET item == relevant_modules[mod_i]
         len == ModuleSectionLen(item.module, item.score, modules_dir[item.module])
     IN  /\ context_parts' = Append(context_parts, Part("module", item.module, len))
         /\ token_count' = token_count + estimate_tokens(len)
  /\ mod_i' = mod_i + 1
  /\ UNCHANGED <<scoreVars, diskVars, indexVars, runVars, parseVars, rules, rule_i, scanVars>>

\* lines 179-180, module document missing
ModuleSkip ==
  /\ pc = "modules"
  /\ mod_i <= Len(Take(relevant_modules, 5))
  /\ ~(10 * token_count > 6 * max_tokens)
  /\ relevant_modules[mod_i].module \notin DOMAIN modules_dir
  /\ mod_i' = mod_i + 1
  /\ UNCHANGED <<scoreVars, diskVars, indexVars, runVars, parseVars, context_parts, token_count, rules, rule_i, scanVars>>

\* lines 201-204
RulesTitle ==
  /\ pc = "rules_title"
  /\ context_parts' = Append(context_parts, Part("rules_title", "", FixedLen.rules_title))
  /\ rules' = load_rules
  /\ rule_i' = 1
  /\ pc' = "rules"
  /\ UNCHANGED <<task, task_lower, relevance_scores, relevant_modules, prev_task, prev_scores, n_added,
                 diskVars, indexVars, runVars, parseVars, token_count, mod_i, scanVars>>

\* line 205: rules[:12] is exhausted
RuleLoopEnd ==
  /\ pc = "rules"
  /\ rule_i > Len(Take(rules, 12))
  /\ pc' = "quick_ref"
  /\ UNCHANGED <<task, task_lower, relevance_scores, relevant_modules, prev_task, prev_scores, n_added,
                 diskVars, indexVars, runVars, parseVars, genVars, scanVars>>

\* lines 206-207
RuleBreak ==
  /\ pc = "rules"
  /\ rule_i <= Len(Take(rules, 12))
  /\ 100 * token_count > 85 * max_tokens
  /\ pc' = "quick_ref"
  /\ UNCHANGED <<task, task_lower, relevance_scores, relevant_modules, prev_task, prev_scores, n_added,
                 diskVars, indexVars, runVars, parseVars, genVars, scanVars>>

\* lines 209-211
RuleAppend ==
  /\ pc = "rules"
  /\ rule_i <= Len(Take(rules, 12))
  /\ ~(100 * token_count > 85 * max_tokens)
  /\ LET len == RuleTextLen(rule_i, rules[rule_i])
     IN  /\ context_parts' = Append(context_parts, Part("rule", rule_i, len))
         /\ token_count' = token_count + estimate_tokens(len)
  /\ rule_i' = rule_i + 1
  /\ UNCHANGED <<scoreVars, diskVars, indexVars, runVars, parseVars, mod_i, rules, scanVars>>

\* slip: the quick reference lines are added to the running estimate
QuickReferenceCounted ==
  /\ pc = "quick_ref"
  /\ context_parts' =
       IF quick_reference.exists /\ 10 * token_count < 9 * max_tokens
         THEN context_parts
                \o << Part("quick_ref_title", "", FixedLen.quick_ref_title) >>
                \o (IF Len(quick_reference.top_rules) > 0
                      THEN << Part("top_rules_title", "", FixedLen.top_rules_title) >>
                             \o [i \in 1..Len(Take(quick_reference.top_rules, 5)) |->
                                   Part("top_rule", i,
                                        FixedLen.top_rule + Len(quick_reference.top_rules[i]))]
                      ELSE <<>>)
         ELSE context_parts
  /\ token_count' = token_count + estimate_tokens(PartsLen(context_parts') - PartsLen(context_parts))
  /\ pc' = "instructions"
  /\ UNCHANGED <<task, task_lower, relevance_scores, relevant_modules, prev_task, prev_scores, n_added,
                 diskVars, indexVars, runVars, parseVars, mod_i, rules, rule_i, scanVars>>

\* lines 213-224
QuickReference ==
  /\ pc = "quick_ref"
  /\ context_parts' =
       IF quick_reference.exists /\ 10 * token_count < 9 * max_tokens
         THEN context_parts
                \o << Part("quick_ref_title", "", FixedLen.quick_ref_title) >>
                \o (IF Len(quick_reference.top_rules) > 0
                      THEN << Part("top_rules_title", "", FixedLen.top_rules_title) >>
                             \o [i \in 1..Len(Take(quick_reference.top_rules, 5)) |->
                                   Part("top_rule", i,
                                        FixedLen.top_rule + Len(quick_reference.top_rules[i]))]
                      ELSE <<>>)
         ELSE context_parts
  /\ pc' = "instructions"
  /\ UNCHANGED <<task, task_lower, relevance_scores, relevant_modules, prev_task, prev_scores, n_added,
                 diskVars, indexVars, runVars, parseVars, token_count, mod_i, rules, rule_i, scanVars>>

\* slip: the instructions are left out when the estimate is not under 90%
InstructionsIfRoom ==
  /\ pc = "instructions"
  /\ context_parts' =
       IF 10 * token_count < 9 * max_tokens
         THEN Append(context_parts, Part("instructions", "task", FooterLen(task, token_count)))
         ELSE context_parts
  /\ pc' = "done"
  /\ UNCHANGED <<task, task_lower, relevance_scores, relevant_modules, prev_task, prev_scores, n_added,
                 diskVars, indexVars, runVars, parseVars, token_count, mod_i, rules, rule_i, scanVars>>

\* lines 226-261: the joined context_parts are returned
Instructions ==
  /\ pc = "instructions"
  /\ context_parts' =
       Append(context_parts, Part("instructions", "task", FooterLen(task, token_count)))
  /\ pc' = "done"
  /\ UNCHANGED <<task, task_lower, relevance_scores, relevant_modules, prev_task, prev_scores, n_added,
                 diskVars, indexVars, runVars, parseVars, token_count, mod_i, rules, rule_i, scanVars>>

InitGen ==
  /\ task \in GenTasks
  /\ pc = "start"
  /\ task_lower = <<>>
  /\ relevance_scores = <<>>
  /\ relevant_modules = <<>>
  /\ prev_task = <<>>
  /\ prev_scores = <<>>
  /\ n_added = 0
  /\ max_tokens \in Budgets
  /\ modules_dir \in ModuleDirs
  /\ rules_json \in RulesDocs
  /\ quick_reference \in
       IF rules_json.exists
         THEN {[exists |-> FALSE], create_quick_reference(rules_json)}
         ELSE {[exists |-> FALSE]}
  /\ NoSave
  /\ NoRun
  /\ NoGen
  /\ NoParse
  /\ NoScan

NextGen ==
  \/ LowerTask
  \/ ScoreModules
  \/ NormalizeScores
  \/ AlwaysIncludeCore
  \/ UseGeneralContext
  \/ SortModules
  \/ Header
  \/ ModuleLoopEnd
  \/ ModuleBreak
  \/ ModuleAppend
  \/ ModuleSkip
  \/ RulesTitle
  \/ RuleLoopEnd
  \/ RuleBreak
  \/ RuleAppend
  \/ QuickReference
  \/ Instructions

SpecGen == InitGen /\ [][NextGen]_vars

\* generate_context runs to its return statement without waiting on anything
SpecGenFair == SpecGen /\ WF_vars(NextGen)

(***************************************************************************)
(* Properties of the relevance map.                                        *)
(***************************************************************************)
\* number of matching keywords of every module for description t
Counts(t) == [m \in AllModules |-> MatchCount(m, lower(t))]
\* with c = Counts(t): match fraction of m as a rational, the matched modules
FractionIn(c, m) == <<c[m], Len(module_keywords[m])>>
MatchedIn(c) == {m \in AllModules : c[m] > 0}
Matched(t) == MatchedIn(Counts(t))
IsLargestFraction(c, x) ==
  /\ x \in MatchedIn(c)
  /\ \A m \in MatchedIn(c) : RatLeq(FractionIn(c, m), FractionIn(c, x))
\* score s of module m is m's fraction divided by the largest fraction
IsNormalizedIn(c, s, m) ==
  \E x \in MatchedIn(c) :
    /\ IsLargestFraction(c, x)
    /\ s[1] * FractionIn(c, x)[1] * FractionIn(c, m)[2]
         = FractionIn(c, m)[1] * FractionIn(c, x)[2] * s[2]
\* score of m in a relevance map, 0 when m is absent
ScoreOrZero(scores, m) == IF m \in Keys(scores) THEN ItemScore(scores, m) ELSE <<0, 1>>
\* the keyword appended by the latest NextTask
LastAdded == SubSeq(task, Len(prev_task) + 2, Len(task))
KeywordsOf(m) == {module_keywords[m][i] : i \in 1..Len(module_keywords[m])}

\* C4: adding a keyword of module M to the description never decreases M's
\* score in the relevance map used for ranking (absent counts as 0).
C4_Monotonic ==
  (pc = "ranked" /\ n_added > 0) =>
    \A m \in AllModules :
      LastAdded \in KeywordsOf(m) =>
        RatLeq(ScoreOrZero(prev_scores, m), ScoreOrZero(relevance_scores, m))

\* C5: a description containing no keyword of any module is ranked with
\* exactly the pair Core 1.0, Features 0.5.
C5_FallbackPair ==
  (pc \in {"scored", "ranked"} /\ Matched(task) = {}) =>
    /\ Keys(relevance_scores) = {"Core", "Features"}
    /\ Len(relevance_scores) = 2
    /\ ItemScore(relevance_scores, "Core") = <<1, 1>>
    /\ ItemScore(relevance_scores, "Features") = <<1, 2>>
C5_Witness == pc = "ranked" /\ Matched(task) = {} /\ Len(relevant_modules) = 2

\* C6: when some module matches and Core matches nothing, Core is in the map
\* with score 0.3 and the matched modules keep their normalized scores; when
\* Core matches, its score is its normalized keyword score, not 0.3; the
\* dark-mode task yields Theme and Features positive and Core at 0.3.
C6_ForcedCore ==
  pc = "analyzed" =>
    \A c \in {Counts(task)} :
    /\ (MatchedIn(c) # {} /\ c["Core"] = 0) =>
         /\ "Core" \in Keys(relevance_scores)
         /\ RatEq(ItemScore(relevance_scores, "Core"), <<3, 10>>)
         /\ \A m \in MatchedIn(c) :
              /\ m \in Keys(relevance_scores)
              /\ IsNormalizedIn(c, ItemScore(relevance_scores, m), m)
    /\ c["Core"] > 0 =>
         /\ "Core" \in Keys(relevance_scores)
         /\ IsNormalizedIn(c, ItemScore(relevance_scores, "Core"), "Core")
         /\ ~RatEq(ItemScore(relevance_scores, "Core"), <<3, 10>>)
    /\ task = Tasks.dark_mode =>
         /\ Keys(relevance_scores) = {"Theme", "Features", "Core"}
         /\ RatLess(<<0, 1>>, ItemScore(relevance_scores, "Theme"))
         /\ RatLess(<<0, 1>>, ItemScore(relevance_scores, "Features"))
         /\ RatEq(ItemScore(relevance_scores, "Core"), <<3, 10>>)
C6_Witness ==
  /\ pc = "analyzed"
  /\ task = Tasks.dark_mode
  /\ "Core" \in Keys(relevance_scores)
  /\ "Core" \notin Matched(task)

\* C7 as stated: every score is in (0,1], modules without a match are absent,
\* a matched module's score is its fraction over the largest fraction, and
\* some matched module has score 1.
C7_Original ==
  pc = "analyzed" =>
    \A c \in {Counts(task)} :
    /\ \A i \in 1..Len(relevance_scores) :
         /\ RatLess(<<0, 1>>, relevance_scores[i].score)
         /\ RatLeq(relevance_scores[i].score, <<1, 1>>)
         /\ relevance_scores[i].module \in MatchedIn(c)
         /\ IsNormalizedIn(c, relevance_scores[i].score, relevance_scores[i].module)
    /\ MatchedIn(c) # {} =>
         \E m \in MatchedIn(c) :
           m \in Keys(relevance_scores) /\ RatEq(ItemScore(relevance_scores, m), <<1, 1>>)

\* C7 amended: as above, except that Core, and only Core, may be present
\* without a match, with score 0.3, when another module matched.
C7_ScoreRange ==
  pc = "analyzed" =>
    \A c \in {Counts(task)} :
    /\ \A i \in 1..Len(relevance_scores) :
         LET m == relevance_scores[i].module
             s == relevance_scores[i].score
         IN  /\ RatLess(<<0, 1>>, s)
             /\ RatLeq(s, <<1, 1>>)
             /\ \/ m \in MatchedIn(c) /\ IsNormalizedIn(c, s, m)
                \/ /\ m = "Core"
                   /\ m \notin MatchedIn(c)
                   /\ MatchedIn(c) # {}
                   /\ RatEq(s, <<3, 10>>)
    /\ \A i, j \in 1..Len(relevance_scores) :
         relevance_scores[i].module = relevance_scores[j].module => i = j
    /\ MatchedIn(c) \subseteq Keys(relevance_scores)
    /\ MatchedIn(c) # {} =>
         \E m \in MatchedIn(c) : RatEq(ItemScore(relevance_scores, m), <<1, 1>>)
C7_Witness ==
  /\ pc = "analyzed"
  /\ Cardinality(Matched(task)) >= 2
  /\ \E m \in Matched(task) : RatLess(ItemScore(relevance_scores, m), <<1, 1>>)

(***************************************************************************)
(* Properties of the assembled digest.                                     *)
(***************************************************************************)
\* C1: the size estimate of the returned digest is at most the budget.
C1_DigestWithinBudget ==
  pc = "done" => estimate_tokens(PartsLen(context_parts)) <= max_tokens

\* C2: when the module loop has ended and the rule section begins, the
\* running estimate has not exceeded 60% of the budget.
C2_ModulesWithin60 ==
  pc = "rules_title" => 10 * token_count <= 6 * max_tokens

\* C3: generate_context always reaches its return, and the digest returned
\* begins with the full header block and ends with the instructions footer.
C3_HeaderToFooter ==
  /\ pc = "done"
  /\ Len(context_parts) >= 2
  /\ context_parts[1].kind = "header"
  /\ context_parts[1].len = 816 + Len(task)
  /\ context_parts[Len(context_parts)].kind = "instructions"
  /\ \A i \in 1..Len(context_parts) :
       /\ context_parts[i].kind = "header" => i = 1
       /\ context_parts[i].kind = "instructions" => i = Len(context_parts)
C3_ReturnsHeaderToFooter == <>[]C3_HeaderToFooter
C3_Witness ==
  /\ pc = "done"
  /\ task = Tasks.no_keyword
  /\ 100 * token_count > 85 * max_tokens
  /\ context_parts[Len(context_parts)].kind = "instructions"

(***************************************************************************)
(* rules_indexer.py: parse_markdown_rule.                                  *)
(* The character U+2022 is written "bullet", U+0060 "backtick".           *)
(***************************************************************************)
\* number of lines of a rule document
MaxDocLines == 3

Whitespace == {" ", "\t"}
DigitChars == {"0", "1", "2", "3", "4", "5", "6", "7", "8", "9"}
BulletChars == {"-", "*", "bullet"}

\* str.strip(chars)
RECURSIVE LStrip(_, _)
LStrip(s, chars) ==
  IF Len(s) > 0 /\ s[1] \in chars THEN LStrip(Tail(s), chars) ELSE s
RECURSIVE RStrip(_, _)
RStrip(s, chars) ==
  IF Len(s) > 0 /\ s[Len(s)] \in chars THEN RStrip(SubSeq(s, 1, Len(s) - 1), chars) ELSE s
Strip(s, chars) == RStrip(LStrip(s, chars), chars)

\* line.startswith('##')
StartsWithHeader(line) == Len(line) >= 2 /\ line[1] = "#" /\ line[2] = "#"

\* line.replace('#', '')
RemoveHashes(line) == SelectSeq(line, LAMBDA c : c # "#")

\* end of the run of digits that starts at position i
RECURSIVE DigitRunEnd(_, _)
DigitRunEnd(s, i) ==
  IF i < Len(s) /\ s[i + 1] \in DigitChars THEN DigitRunEnd(s, i + 1) ELSE i

\* \d+\. matches at position i
NumberedAt(s, i) ==
  /\ i <= Len(s)
  /\ s[i] \in DigitChars
  /\ DigitRunEnd(s, i) < Len(s)
  /\ s[DigitRunEnd(s, i) + 1] = "."

\* re.match(r'^[-*bullet]|\d+\.', line)
IsListItem(line) ==
  Len(line) > 0 /\ (line[1] \in BulletChars \/ NumberedAt(line, 1))

\* re.sub(r'\d+\.', '', s) from position i on
RECURSIVE RemoveNumbered(_, _)
RemoveNumbered(s, i) ==
  IF i > Len(s) THEN <<>>
  ELSE IF NumberedAt(s, i) THEN RemoveNumbered(s, DigitRunEnd(s, i) + 2)
  ELSE <<s[i]>> \o RemoveNumbered(s, i + 1)

\* re.sub(r'^[-*bullet]|\d+\.', '', line)
RemoveListMarkers(line) ==
  IF Len(line) > 0 /\ line[1] \in BulletChars
    THEN RemoveNumbered(line, 2)
    ELSE RemoveNumbered(line, 1)

\* the marker substrings
Marker ==
  [ critical |-> <<"C","R","I","T","I","C","A","L">>,
    must |-> <<"M","U","S","T">>,
    important |-> <<"I","M","P","O","R","T","A","N","T">>,
    should |-> <<"S","H","O","U","L","D">>,
    optional |-> <<"O","P","T","I","O","N","A","L">>,
    nice_to_have |-> <<"N","I","C","E"," ","T","O"," ","H","A","V","E">> ]

\* slip: the important markers are tested before the critical ones
DetectPriorityHighFirst(line, priority) ==
  IF Contains(Marker.important, line) \/ Contains(Marker.should, line) THEN "high"
  ELSE IF Contains(Marker.critical, line) \/ Contains(Marker.must, line) THEN "critical"
  ELSE IF Contains(Marker.optional, line) \/ Contains(Marker.nice_to_have, line) THEN "low"
  ELSE priority

\* lines 45-51
DetectPriority(line, priority) ==
  IF Contains(Marker.critical, line) \/ Contains(Marker.must, line) THEN "critical"
  ELSE IF Contains(Marker.important, line) \/ Contains(Marker.should, line) THEN "high"
  ELSE IF Contains(Marker.optional, line) \/ Contains(Marker.nice_to_have, line) THEN "low"
  ELSE priority

\* rule texts must be longer than this
MinRuleLen == 10

Rule(text, category, priority) ==
  [text |-> text, category |-> category, priority |-> priority, source_file |-> "None"]

\* lines 53-75: the rules list after a line that is neither empty nor a header
CaptureRule(line, category, priority, rs) ==
  IF IsListItem(line)
    THEN LET rule_text == Strip(RemoveListMarkers(line), Whitespace)
         IN  IF Len(rule_text) > MinRuleLen
               THEN Append(rs, Rule(rule_text, category, priority))
               ELSE rs
  ELSE IF Len(line) > 0 /\ line[1] = "backtick" /\ line[Len(line)] = "backtick"
    THEN LET rule_text == Strip(line, {"backtick"})
         IN  IF Len(rule_text) > MinRuleLen
               THEN Append(rs, Rule(<<"C","o","d","e"," ","p","a","t","t","e","r","n",":"," ">> \o rule_text,
                                category, priority))
               ELSE rs
  ELSE rs

\* the lines rule documents are made of
Lines ==
  [ critical |->
      \* "CRITICAL"
      <<"C","R","I","T","I","C","A","L">>,
    optional |->
      \* "OPTIONAL"
      <<"O","P","T","I","O","N","A","L">>,
    item |->
      \* "- Keep views free of hardcoded values"
      <<"-"," ","K","e","e","p"," ","v","i","e","w","s"," ","f","r","e","e"," ","o","f"," ","h","a","r","d","c","o","d","e","d"," ","v","a","l","u","e","s">>,
    item_b |->
      \* "- Pass every callback through the config"
      <<"-"," ","P","a","s","s"," ","e","v","e","r","y"," ","c","a","l","l","b","a","c","k"," ","t","h","r","o","u","g","h"," ","t","h","e"," ","c","o","n","f","i","g">>,
    item_c |->
      \* "- Cover reducers with unit tests"
      <<"-"," ","C","o","v","e","r"," ","r","e","d","u","c","e","r","s"," ","w","i","t","h"," ","u","n","i","t"," ","t","e","s","t","s">>,
    item_d |->
      \* "- Widgets are nice extras"
      <<"-"," ","W","i","d","g","e","t","s"," ","a","r","e"," ","n","i","c","e"," ","e","x","t","r","a","s">>,
    header_critical |->
      \* "## CRITICAL rules"
      <<"#","#"," ","C","R","I","T","I","C","A","L"," ","r","u","l","e","s">>,
    header |->
      \* "## Naming"
      <<"#","#"," ","N","a","m","i","n","g">>,
    item_must |->
      \* "- MUST use reducers for state"
      <<"-"," ","M","U","S","T"," ","u","s","e"," ","r","e","d","u","c","e","r","s"," ","f","o","r"," ","s","t","a","t","e">>,
    code_important |->
      \* IMPORTANT: let config: Config, wrapped in backticks
      <<"backtick","I","M","P","O","R","T","A","N","T",":"," ","l","e","t"," ","c","o","n","f","i","g",":"," ","C","o","n","f","i","g","backtick">>,
    should_must |->
      \* "SHOULD and MUST"
      <<"S","H","O","U","L","D"," ","a","n","d"," ","M","U","S","T">>,
    nice_to_have |->
      \* "  NICE TO HAVE  "
      <<" "," ","N","I","C","E"," ","T","O"," ","H","A","V","E"," "," ">>,
    short_must |->
      \* "- MUST"
      <<"-"," ","M","U","S","T">>,
    numbered |->
      \* "1. Name types in UpperCamelCase"
      <<"1","."," ","N","a","m","e"," ","t","y","p","e","s"," ","i","n"," ","U","p","p","e","r","C","a","m","e","l","C","a","s","e">> ]

\* a CRITICAL marker, three list items, an OPTIONAL marker, one list item
ExampleDoc == <<Lines.critical, Lines.item, Lines.item_b, Lines.item_c, Lines.optional, Lines.item_d>>

\* documents of the empty line and every line of Lines but the three further list items
RuleDocuments ==
  LET LinePool == {<<>>} \cup {Lines[k] : k \in DOMAIN Lines \ {"item_b", "item_c", "item_d"}}
  IN  UNION { [1..n -> LinePool] : n \in 0..MaxDocLines } \cup {ExampleDoc}

\* lines 27-31
ParseBegin ==
  /\ pc = "parse"
  /\ rule_list' = <<>>
  /\ current_category' = <<"g","e","n","e","r","a","l">>
  /\ current_priority' = "medium"
  /\ line_i' = 1
  /\ pc' = "parsing"
  /\ UNCHANGED <<content, taskVars, diskVars, indexVars, runVars, genVars, scanVars>>

\* slip: the priority falls back to medium once a rule has been captured
ParseLineReset ==
  /\ pc = "parsing"
  /\ line_i <= Len(content)
  /\ LET line == Strip(content[line_i], Whitespace)
     IN  IF Len(line) = 0
           THEN UNCHANGED <<current_category, current_priority, rule_list>>
         ELSE IF StartsWithHeader(line)
           THEN /\ current_category' = lower(Strip(RemoveHashes(line), Whitespace))
                /\ UNCHANGED <<current_priority, rule_list>>
         ELSE /\ rule_list' = CaptureRule(line, current_category,
                                          DetectPriority(line, current_priority), rule_list)
              /\ current_priority' =
                   IF rule_list' # rule_list THEN "medium"
                   ELSE DetectPriority(line, current_priority)
              /\ UNCHANGED current_category
  /\ line_i' = line_i + 1
  /\ UNCHANGED <<pc, content, taskVars, diskVars, indexVars, runVars, genVars, scanVars>>

\* lines 33-75: one iteration of the loop over the lines
ParseLine ==
  /\ pc = "parsing"
  /\ line_i <= Len(content)
  /\ LET line == Strip(content[line_i], Whitespace)
     IN  IF Len(line) = 0
           THEN UNCHANGED <<current_category, current_priority, rule_list>>
         ELSE IF StartsWithHeader(line)
           THEN /\ current_category' = lower(Strip(RemoveHashes(line), Whitespace))
                /\ UNCHANGED <<current_priority, rule_list>>
         ELSE /\ current_priority' = DetectPriority(line, current_priority)
              /\ rule_list' = CaptureRule(line, current_category,
                                          DetectPriority(line, current_priority), rule_list)
              /\ UNCHANGED current_category
  /\ line_i' = line_i + 1
  /\ UNCHANGED <<pc, content, taskVars, diskVars, indexVars, runVars, genVars, scanVars>>

\* line 77
ParseReturn ==
  /\ pc = "parsing"
  /\ line_i > Len(content)
  /\ pc' = "parsed"
  /\ UNCHANGED <<taskVars, diskVars, indexVars, runVars, genVars, parseVars, scanVars>>

InitRules ==
  /\ pc = "parse"
  /\ content \in RuleDocuments
  /\ line_i = 0
  /\ current_category = <<>>
  /\ current_priority = ""
  /\ rule_list = <<>>
  /\ NoTask
  /\ NoDisk
  /\ NoGen
  /\ NoScan

NextRules ==
  \/ ParseBegin
  \/ ParseLine
  \/ ParseReturn

SpecRules == InitRules /\ [][NextRules]_vars

(***************************************************************************)
(* Properties of parse_markdown_rule.                                      *)
(***************************************************************************)
\* the line contains one of the six marker substrings
HasMarker(line) ==
  \E k \in DOMAIN Marker : Contains(Marker[k], line)

\* the priority a marker-bearing line names: critical markers before
\* important markers before optional markers
MarkerClass(line) ==
  CASE Contains(Marker.critical, line) \/ Contains(Marker.must, line) -> "critical"
    [] /\ ~(Contains(Marker.critical, line) \/ Contains(Marker.must, line))
       /\ (Contains(Marker.important, line) \/ Contains(Marker.should, line)) -> "high"
    [] OTHER -> "low"

\* a marker line: a line that is not a header and contains a marker
IsMarkerLine(raw) ==
  /\ ~StartsWithHeader(Strip(raw, Whitespace))
  /\ HasMarker(Strip(raw, Whitespace))

\* a header line
IsHeaderLine(raw) == StartsWithHeader(Strip(raw, Whitespace))

\* the line is captured as a rule
IsCaptured(raw) ==
  /\ ~IsHeaderLine(raw)
  /\ CaptureRule(Strip(raw, Whitespace), <<>>, "medium", <<>>) # <<>>

\* the priority set by the most recent marker line among lines 1..j
PriorityAt(j) ==
  LET ks == {k \in 1..j : IsMarkerLine(content[k])}
  IN  IF ks = {} THEN "medium"
      ELSE MarkerClass(Strip(content[CHOOSE k \in ks : \A h \in ks : h <= k], Whitespace))

\* the tags of the rules captured from lines 1..j, in order
RECURSIVE TagsUpTo(_)
TagsUpTo(j) ==
  IF j = 0 THEN <<>>
  ELSE IF IsCaptured(content[j]) THEN Append(TagsUpTo(j - 1), PriorityAt(j))
  ELSE TagsUpTo(j - 1)

Tags(rs) == [i \in 1..Len(rs) |-> rs[i].priority]

C8_Tagged ==
  /\ pc \in {"parsing", "parsed"} =>
       /\ current_priority = PriorityAt(line_i - 1)
       /\ Tags(rule_list) = TagsUpTo(line_i - 1)
  /\ (pc = "parsed" /\ content = ExampleDoc) =>
       Tags(rule_list) = <<"critical", "critical", "critical", "low">>
C8_BetweenMarkers ==
  (pc = "parsing" /\ pc' = "parsing" /\ ~IsMarkerLine(content[line_i]))
    => current_priority' = current_priority
\* C8: every document starts at priority medium; each captured rule carries
\* the priority of the most recent marker line at or before it (medium when
\* there is none); a line that is not a marker line leaves the priority as it
\* is; a CRITICAL marker, three items, an OPTIONAL marker and one item give
\* three critical rules and one low rule in that order.
C8_StickyPriority == []C8_Tagged /\ [][C8_BetweenMarkers]_vars
C8_Witness ==
  /\ pc = "parsed"
  /\ content = ExampleDoc
  /\ Len(rule_list) = 4
  /\ Tags(rule_list) = <<"critical", "critical", "critical", "low">>

\* C9 as stated: after any line that contains a marker, header lines
\* included, the current priority is the one the marker names.
C9_Original ==
  [][(pc = "parsing" /\ pc' = "parsing"
        /\ HasMarker(Strip(content[line_i], Whitespace)))
      => current_priority' = MarkerClass(Strip(content[line_i], Whitespace))]_vars

\* C9: after a line that is not a header and contains a marker (plain text,
\* list item or inline-code line) the current priority is critical if the
\* line contains CRITICAL or MUST, otherwise high if it contains IMPORTANT or
\* SHOULD, otherwise low; a header line leaves the priority unchanged, with
\* or without a marker in it.
C9_MarkerUpdates ==
  [][(pc = "parsing" /\ pc' = "parsing") =>
       /\ IsMarkerLine(content[line_i]) =>
            current_priority' = MarkerClass(Strip(content[line_i], Whitespace))
       /\ IsHeaderLine(content[line_i]) => current_priority' = current_priority]_vars
C9_Witness ==
  /\ pc = "parsing"
  /\ line_i = 4
  /\ content = <<Lines.header_critical, Lines.should_must, Lines.code_important>>
  /\ current_priority = "high"
  /\ Len(rule_list) = 1
  /\ rule_list[1].priority = "high"

(***************************************************************************)
(* scanner.py: ProjectScanner.                                             *)
(***************************************************************************)
\* number of paths rglob returns
MaxFiles == 3

\* "/w": the working directory the scanner is started in
project_root == <<"/","w">>
\* "Misc"
Misc == <<"M","i","s","c">>

\* config.json as load_config returns it
config ==
  [ project |-> [root_path |-> <<"S","o","u","r","c","e","s">>],  \* "Sources"
    modules |-> { <<"C","o","r","e">>,
                  <<"F","e","a","t","u","r","e","s">>,
                  <<"S","e","r","v","i","c","e","s">>,
                  <<"T","h","e","m","e">>,
                  <<"N","e","t","w","o","r","k">>,
                  <<"S","t","o","r","a","g","e">>,
                  <<"M","o","n","e","t","i","z","a","t","i","o","n">>,
                  <<"U","t","i","l","i","t","i","e","s">> },
    indexing |->
      [ ignore_patterns |-> << <<"*",".","g","e","n","e","r","a","t","e","d",".","s","w","i","f","t">>,
                             <<"*","/","P","o","d","s","/","*">>,
                             <<"*","T","e","s","t","s","*">> >>,
        max_file_size_kb |-> 500 ] ]

\* Path / str
Slash(a, b) == a \o <<"/">> \o b

\* str.split(sep) for a one-character separator
RECURSIVE SplitFrom(_, _, _, _)
SplitFrom(s, sep, i, cur) ==
  IF i > Len(s) THEN <<cur>>
  ELSE IF s[i] = sep THEN <<cur>> \o SplitFrom(s, sep, i + 1, <<>>)
  ELSE SplitFrom(s, sep, i + 1, Append(cur, s[i]))
Split(s, sep) == SplitFrom(s, sep, 1, <<>>)

\* str.replace('*', '')
RemoveStars(pattern) == SelectSeq(pattern, LAMBDA c : c # "*")

\* a file of the source tree: its path below source_root, what stat and
\* exists report, whether open/read succeeds, and the text read
SwiftFile(rel, text) ==
  [rel |-> rel, exists |-> TRUE, readable |-> TRUE, st_size |-> Len(text), text |-> text]

\* the files source trees are made of
Files ==
  [ store |->
      \* Core/Store.swift: "import Foundation\n\n// store\nstruct Store {}\n"
      SwiftFile(<<"C","o","r","e","/","S","t","o","r","e",".","s","w","i","f","t">>,
        <<"i","m","p","o","r","t"," ","F","o","u","n","d","a","t","i","o","n","\n","\n","/","/"," ","s","t","o","r","e","\n","s","t","r","u","c","t"," ","S","t","o","r","e"," ","{","}","\n">>),
    reducer |->
      \* Core/Reducer.swift: "import Foundation\nprotocol Reducer {\n  func reduce()\n}"
      SwiftFile(<<"C","o","r","e","/","R","e","d","u","c","e","r",".","s","w","i","f","t">>,
        <<"i","m","p","o","r","t"," ","F","o","u","n","d","a","t","i","o","n","\n","p","r","o","t","o","c","o","l"," ","R","e","d","u","c","e","r"," ","{","\n"," "," ","f","u","n","c"," ","r","e","d","u","c","e","(",")","\n","}">>),
    home_view |->
      \* Features/Home/HomeView.swift: "import SwiftUI\npublic struct HomeView {}\n  // body"
      SwiftFile(<<"F","e","a","t","u","r","e","s","/","H","o","m","e","/","H","o","m","e","V","i","e","w",".","s","w","i","f","t">>,
        <<"i","m","p","o","r","t"," ","S","w","i","f","t","U","I","\n","p","u","b","l","i","c"," ","s","t","r","u","c","t"," ","H","o","m","e","V","i","e","w"," ","{","}","\n"," "," ","/","/"," ","b","o","d","y">>),
    app |->
      \* App.swift: "@main\nstruct App {}"
      SwiftFile(<<"A","p","p",".","s","w","i","f","t">>,
        <<"@","m","a","i","n","\n","s","t","r","u","c","t"," ","A","p","p"," ","{","}">>),
    lint |->
      \* Tools/Lint.swift: "import Foundation\nfinal class Lint {}\nextension Lint {}"
      SwiftFile(<<"T","o","o","l","s","/","L","i","n","t",".","s","w","i","f","t">>,
        <<"i","m","p","o","r","t"," ","F","o","u","n","d","a","t","i","o","n","\n","f","i","n","a","l"," ","c","l","a","s","s"," ","L","i","n","t"," ","{","}","\n","e","x","t","e","n","s","i","o","n"," ","L","i","n","t"," ","{","}">>),
    store_tests |->
      \* Core/StoreTests.swift: "import XCTest\nclass StoreTests {}"
      SwiftFile(<<"C","o","r","e","/","S","t","o","r","e","T","e","s","t","s",".","s","w","i","f","t">>,
        <<"i","m","p","o","r","t"," ","X","C","T","e","s","t","\n","c","l","a","s","s"," ","S","t","o","r","e","T","e","s","t","s"," ","{","}">>),
    generated |->
      \* Core/Store.generated.swift: "enum Generated {}"
      SwiftFile(<<"C","o","r","e","/","S","t","o","r","e",".","g","e","n","e","r","a","t","e","d",".","s","w","i","f","t">>,
        <<"e","n","u","m"," ","G","e","n","e","r","a","t","e","d"," ","{","}">>),
    broken |->
      \* Features/Broken.swift: a dangling link, open raises
      [rel |-> <<"F","e","a","t","u","r","e","s","/","B","r","o","k","e","n",".","s","w","i","f","t">>,
        exists |-> FALSE, readable |-> FALSE, st_size |-> 0, text |-> <<>>],
    undecodable |->
      \* Core/Legacy.swift: bytes that are not UTF-8, read raises
      [rel |-> <<"C","o","r","e","/","L","e","g","a","c","y",".","s","w","i","f","t">>,
        exists |-> TRUE, readable |-> FALSE, st_size |-> 2048, text |-> <<>>],
    big |->
      \* Vendor/Big.swift: 600 KB, above max_file_size_kb; it is never opened and
      \* its text is left out
      [rel |-> <<"V","e","n","d","o","r","/","B","i","g",".","s","w","i","f","t">>,
        exists |-> TRUE, readable |-> TRUE, st_size |-> 614400, text |-> <<>>] ]

\* the lists rglob can return: distinct paths in any order
SourceTrees ==
  LET FilePool == {Files[k] : k \in DOMAIN Files}
  IN  UNION { { fs \in [1..n -> FilePool] : \A i, j \in 1..n : i # j => fs[i] # fs[j] }
              : n \in 0..MaxFiles }

\* str(file_path)
PathStr(f) == Slash(Slash(project_root, config.project.root_path), f.rel)

\* lines 26-39
should_ignore(f) ==
  \/ \E i \in 1..Len(config.indexing.ignore_patterns) :
       Contains(RemoveStars(config.indexing.ignore_patterns[i]), PathStr(f))
  \/ f.exists /\ f.st_size > 1024 * config.indexing.max_file_size_kb

\* \s and \w of the regular expressions
SpaceChars == {" ", "\t", "\n", "\r"}
WordChars ==
  DOMAIN UpperToLower \cup {UpperToLower[c] : c \in DOMAIN UpperToLower}
    \cup DigitChars \cup {"_"}

\* end of the run of characters of cls that starts at position i (i - 1 when
\* the run is empty)
RECURSIVE RunEnd(_, _, _)
RunEnd(s, i, cls) ==
  IF i <= Len(s) /\ s[i] \in cls THEN RunEnd(s, i + 1, cls) ELSE i - 1

\* keyword\s+(\w+) matches at position i
KeywordAt(keyword, s, i) ==
  /\ i + Len(keyword) - 1 <= Len(s)
  /\ \A j \in 1..Len(keyword) : s[i + j - 1] = keyword[j]
  /\ RunEnd(s, i + Len(keyword), SpaceChars) >= i + Len(keyword)
  /\ RunEnd(s, RunEnd(s, i + Len(keyword), SpaceChars) + 1, WordChars)
       > RunEnd(s, i + Len(keyword), SpaceChars)

\* re.findall(r'(?:prefix\s+)?keyword\s+(\w+)', s) from position i on: the
\* names captured, left to right, matches not overlapping
RECURSIVE FindAllFrom(_, _, _)
FindAllFrom(keyword, s, i) ==
  IF i > Len(s) THEN <<>>
  ELSE IF KeywordAt(keyword, s, i)
    THEN LET b == RunEnd(s, i + Len(keyword), SpaceChars) + 1
             e == RunEnd(s, b, WordChars)
         IN  <<SubSeq(s, b, e)>> \o FindAllFrom(keyword, s, e + 1)
  ELSE FindAllFrom(keyword, s, i + 1)

\* set(re.findall(...))
FindAll(keyword, s) ==
  UNION { {names[k] : k \in 1..Len(names)} : names \in {FindAllFrom(keyword, s, 1)} }

\* the keyword of the pattern of each symbol type
SymbolKeyword ==
  [classes |-> <<"c","l","a","s","s">>, structs |-> <<"s","t","r","u","c","t">>,
   enums |-> <<"e","n","u","m">>, protocols |-> <<"p","r","o","t","o","c","o","l">>,
   extensions |-> <<"e","x","t","e","n","s","i","o","n">>, functions |-> <<"f","u","n","c">>]
\* symbol_type[:-1]
SymbolPrefix ==
  [classes |-> <<"c","l","a","s","s","e">>, structs |-> <<"s","t","r","u","c","t">>,
   enums |-> <<"e","n","u","m">>, protocols |-> <<"p","r","o","t","o","c","o","l">>,
   extensions |-> <<"e","x","t","e","n","s","i","o","n">>, functions |-> <<"f","u","n","c","t","i","o","n">>]

\* lines 41-66; each list(set(matches)) is kept as the set
extract_symbols(text) ==
  [t \in DOMAIN SymbolKeyword |-> FindAll(SymbolKeyword[t], text)]

\* lines 68-71
extract_imports(text) == FindAll(<<"i","m","p","o","r","t">>, text)

\* lines 84-87: lines that are not blank and do not start with //
CountsAsCode(line) ==
  LET t == Strip(line, SpaceChars)
  IN  /\ Len(t) > 0
      /\ ~(Len(t) >= 2 /\ t[1] = "/" /\ t[2] = "/")
LinesOfCode(text) == Len(SelectSeq(Split(text, "\n"), CountsAsCode))

\* last element of relative_path.parts
FileName(f) == Split(f.rel, "/")[Len(Split(f.rel, "/"))]

None == [none |-> TRUE]

\* lines 73-99
analyze_file(f) ==
  IF ~f.readable THEN None
  ELSE [ path |-> Slash(config.project.root_path, f.rel),
         name |-> FileName(f),
         size_bytes |-> f.st_size,
         loc |-> LinesOfCode(f.text),
         symbols |-> extract_symbols(f.text),
         imports |-> extract_imports(f.text),
         has_tests |->
           \/ <<"X","C","T","e","s","t">> \in extract_imports(f.text)
           \/ Contains(<<"@","T","e","s","t">>, f.text) ]

\* slip: the first path segment is taken as the module without the
\* allow-list test
identify_module_unlisted(f) ==
  LET parts == Split(f.rel, "/")
  IN  IF Len(parts) > 0 THEN parts[1] ELSE Misc

\* lines 101-114
identify_module(f) ==
  LET parts == Split(f.rel, "/")
  IN  IF Len(parts) > 0 /\ parts[1] \in config.modules THEN parts[1] ELSE Misc

\* position of the record of module_name in modules, 0 when it has none
ModuleIndex(ms, module_name) ==
  IF \E k \in 1..Len(ms) : ms[k].name = module_name
    THEN CHOOSE k \in 1..Len(ms) : ms[k].name = module_name
    ELSE 0

\* lines 141-148: the record a module starts with
NewModule(module_name) ==
  [name |-> module_name, files |-> <<>>, total_loc |-> 0,
   key_symbols |-> {}, dependencies |-> {}]

\* lines 153-156: the entries f"{symbol_type[:-1]}:{symbol}" of one file
KeySymbolsOf(file_info) ==
  UNION { { SymbolPrefix[t] \o <<":">> \o sym : sym \in file_info.symbols[t] }
          : t \in DOMAIN file_info.symbols }

\* all symbol names of one file
SymbolsOf(file_info) == UNION { file_info.symbols[t] : t \in DOMAIN file_info.symbols }

\* slip: the lines of a file are counted only when it opens a new module
AddFileFirstLocOnly(m, file_info) ==
  [m EXCEPT !.files = Append(@, file_info),
            !.total_loc = IF @ = 0 THEN file_info.loc ELSE @,
            !.key_symbols = @ \cup KeySymbolsOf(file_info),
            !.dependencies = @ \cup file_info.imports]

\* lines 150-160: the record of a module after one more file
AddFile(m, file_info) ==
  [m EXCEPT !.files = Append(@, file_info),
            !.total_loc = @ + file_info.loc,
            !.key_symbols = @ \cup KeySymbolsOf(file_info),
            !.dependencies = @ \cup file_info.imports]

\* lines 116-125
ScanBegin ==
  /\ pc = "scan"
  /\ modules' = <<>>
  /\ all_symbols' = <<>>
  /\ file_i' = 1
  /\ pc' = "scanning"
  /\ UNCHANGED <<swift_files, taskVars, diskVars, indexVars, runVars, genVars, parseVars>>

\* lines 127-130
ScanIgnored ==
  /\ pc = "scanning"
  /\ file_i <= Len(swift_files)
  /\ should_ignore(swift_files[file_i])
  /\ file_i' = file_i + 1
  /\ UNCHANGED <<pc, swift_files, modules, all_symbols, taskVars, diskVars, indexVars, runVars, genVars, parseVars>>

\* lines 132-135
ScanFailed ==
  /\ pc = "scanning"
  /\ file_i <= Len(swift_files)
  /\ ~should_ignore(swift_files[file_i])
  /\ analyze_file(swift_files[file_i]) = None
  /\ file_i' = file_i + 1
  /\ UNCHANGED <<pc, swift_files, modules, all_symbols, taskVars, diskVars, indexVars, runVars, genVars, parseVars>>

\* lines 137-160; key_symbols is kept as the set of its entries
ScanAdd ==
  /\ pc = "scanning"
  /\ file_i <= Len(swift_files)
  /\ ~should_ignore(swift_files[file_i])
  /\ \E file_info \in {analyze_file(swift_files[file_i])} :
       /\ file_info # None
       /\ LET module_name == identify_module(swift_files[file_i])
              ms == IF ModuleIndex(modules, module_name) = 0
                      THEN Append(modules, NewModule(module_name))
                      ELSE modules
              k == ModuleIndex(ms, module_name)
          IN  /\ modules' = [ms EXCEPT ![k] = AddFile(@, file_info)]
              /\ all_symbols' =
                   [sym \in DOMAIN all_symbols \cup SymbolsOf(file_info) |->
                      IF sym \in SymbolsOf(file_info) THEN file_info.path
                      ELSE all_symbols[sym]]
  /\ file_i' = file_i + 1
  /\ UNCHANGED <<pc, swift_files, taskVars, diskVars, indexVars, runVars, genVars, parseVars>>

\* the subsets of entries a list cut [:n] can keep when the order of the list is not
\* fixed, as in list(set(key_symbols))[:20]
Kept(entries, n) ==
  IF Cardinality(entries) <= n THEN {entries}
  ELSE {kept \in SUBSET entries : Cardinality(kept) = n}

\* lines 162-167
ScanReturn ==
  /\ pc = "scanning"
  /\ file_i > Len(swift_files)
  /\ \E kept \in [1..Len(modules) -> UNION {Kept(modules[k].key_symbols, 20) : k \in 1..Len(modules)}] :
       /\ \A k \in 1..Len(modules) : kept[k] \in Kept(modules[k].key_symbols, 20)
       /\ modules' = [k \in 1..Len(modules) |-> [modules[k] EXCEPT !.key_symbols = kept[k]]]
  /\ pc' = "scanned"
  /\ UNCHANGED <<swift_files, file_i, all_symbols, taskVars, diskVars, indexVars, runVars, genVars, parseVars>>

InitScan ==
  /\ pc = "scan"
  /\ swift_files \in SourceTrees
  /\ file_i = 0
  /\ modules = <<>>
  /\ all_symbols = <<>>
  /\ NoTask
  /\ NoDisk
  /\ NoGen
  /\ NoParse

NextScan ==
  \/ ScanBegin
  \/ ScanIgnored
  \/ ScanFailed
  \/ ScanAdd
  \/ ScanReturn

SpecScan == InitScan /\ [][NextScan]_vars

(***************************************************************************)
(* Properties of scan_project.                                             *)
(***************************************************************************)
\* the file is neither ignored nor fails to be read
Analyzed(f) == ~should_ignore(f) /\ f.readable

\* the places <<module record, position in its files list>> where the File
\* Record of f stands
RecordsOf(f) ==
  { loc \in UNION { {<<k, j>> : j \in 1..Len(modules[k].files)} : k \in 1..Len(modules) } :
      modules[loc[1]].files[loc[2]].path = Slash(config.project.root_path, f.rel) }

RECURSIVE SumLoc(_)
SumLoc(files) == IF files = <<>> THEN 0 ELSE Head(files).loc + SumLoc(Tail(files))

\* C10: when scan_project returns, every analyzed file has its File Record
\* in exactly one Module Record, and each Module Record's total_loc is the
\* sum of the loc of the File Records in its files list.
C10_FilesAndLoc ==
  pc = "scanned" =>
    /\ \A i \in 1..Len(swift_files) :
         Analyzed(swift_files[i]) => Cardinality(RecordsOf(swift_files[i])) = 1
    /\ \A k \in 1..Len(modules) : modules[k].total_loc = SumLoc(modules[k].files)
C10_Witness ==
  /\ pc = "scanned"
  /\ \E i \in 1..Len(swift_files) : ~Analyzed(swift_files[i])
  /\ \E k \in 1..Len(modules) :
       /\ Len(modules[k].files) = 2
       /\ modules[k].files[1].loc > 0
       /\ modules[k].files[2].loc > 0
       /\ modules[k].total_loc = modules[k].files[1].loc + modules[k].files[2].loc

\* the path of f below the source root up to its first "/" (all of it when
\* the file lies directly in the source root)
FirstSegment(f) ==
  IF \E i \in 1..Len(f.rel) : f.rel[i] = "/"
    THEN SubSeq(f.rel, 1, (CHOOSE i \in 1..Len(f.rel) :
                              f.rel[i] = "/" /\ \A j \in 1..(i - 1) : f.rel[j] # "/") - 1)
    ELSE f.rel

\* the names of the Module Records that hold the File Record of f
ModulesHolding(f) == {modules[loc[1]].name : loc \in RecordsOf(f)}

PartsOf(kind) == SelectSeq(context_parts, LAMBDA part : part.kind = kind)

\* the number of items of the relevance map ranked before module m: those
\* with a greater score, and those with an equal score inserted earlier
RankedBefore(m) ==
  Cardinality({ i \in 1..Len(relevance_scores) :
    \/ RatLess(ItemScore(relevance_scores, m), relevance_scores[i].score)
    \/ /\ RatEq(ItemScore(relevance_scores, m), relevance_scores[i].score)
       /\ i < ScoreOf(relevance_scores, m) })

\* C16: the module blocks stand in non-increasing order of relevance score,
\* there are at most 5, each belongs to one of the first 5 modules of the
\* descending ranking and to a module with a persisted document, no module
\* has two blocks, and no module ranked sixth or later has a block.
C16_ModuleBlocks ==
  pc \in {"modules", "rules_title", "rules", "quick_ref", "instructions", "done"} =>
    \A blocks \in {PartsOf("module")} :
      /\ Len(blocks) <= 5
      /\ \A i \in 1..Len(blocks) :
           /\ blocks[i].ref \in Keys(relevance_scores)
           /\ RankedBefore(blocks[i].ref) < 5
           /\ blocks[i].ref \in DOMAIN modules_dir
      /\ \A i, j \in 1..Len(blocks) :
           i < j => /\ RankedBefore(blocks[i].ref) < RankedBefore(blocks[j].ref)
                    /\ RatLeq(ItemScore(relevance_scores, blocks[j].ref),
                              ItemScore(relevance_scores, blocks[i].ref))
C16_Witness ==
  /\ pc = "done"
  /\ task = Tasks.many
  /\ Len(relevant_modules) = 8
  /\ DOMAIN modules_dir = {"Core", "Features"}
  /\ Len(PartsOf("module")) = 1
  /\ PartsOf("module")[1].ref = "Core"

\* the rule lines stand for list[1], list[2], ... numbered from 1,
\* all of them unless the estimate exceeded 85% of the budget
RuleLinesFrom(list) ==
  \A lines \in {PartsOf("rule")} :
    /\ Len(lines) <= Len(list)
    /\ \A k \in 1..Len(lines) : lines[k].ref = k /\ rules[k] = list[k]
    /\ (pc \in {"quick_ref", "instructions", "done"} /\ Len(lines) < Len(list))
         => 100 * token_count > 85 * max_tokens

\* a step that appends a rule line starts from an estimate of at most 85%
RuleLineWithinLimit ==
  Len(PartsOf("rule"))' > Len(PartsOf("rule")) => 100 * token_count <= 85 * max_tokens

\* C17 as stated: the rule lines are a prefix of the first 12 of all
\* persisted critical rules followed by all persisted high rules.
C17_Original ==
  /\ [](pc \in {"rules", "quick_ref", "instructions", "done"} =>
          RuleLinesFrom(IF rules_json.exists
                          THEN Take(rules_json.critical \o rules_json.high, 12)
                          ELSE <<>>))
  /\ [][RuleLineWithinLimit]_vars

\* C17: the rule lines are a prefix of the first 12 entries of the list made
\* of the first 5 persisted critical rules followed by the first 5 persisted
\* high rules, numbered from 1 in that order; all of them appear unless the
\* running estimate exceeds 85% of the budget, and no rule line is appended
\* once the estimate before it exceeds 85% of the budget.
C17_RuleLines ==
  /\ [](pc \in {"rules", "quick_ref", "instructions", "done"} =>
          RuleLinesFrom(IF rules_json.exists
                          THEN Take(Take(rules_json.critical, 5) \o Take(rules_json.high, 5), 12)
                          ELSE <<>>))
  /\ [][RuleLineWithinLimit]_vars
C17_Witness ==
  /\ pc = "done"
  /\ rules_json.exists
  /\ Len(rules_json.critical) = 7
  /\ Len(PartsOf("rule")) = 10
  /\ rules[6] = rules_json.high[1]

RECURSIVE SumTokens(_)
SumTokens(parts) ==
  IF parts = <<>> THEN 0 ELSE estimate_tokens(Head(parts).len) + SumTokens(Tail(parts))

C18_Section ==
  pc \in {"instructions", "done"} =>
    /\ Len(PartsOf("quick_ref_title")) = 1
         <=> (quick_reference.exists /\ 10 * token_count < 9 * max_tokens)
    /\ Len(PartsOf("quick_ref_title")) = 0 =>
         Len(PartsOf("top_rules_title")) = 0 /\ Len(PartsOf("top_rule")) = 0
    /\ Len(PartsOf("quick_ref_title")) = 1 =>
         \A lines \in {PartsOf("top_rule")} :
           /\ Len(lines) <= 5
           /\ Len(lines) = Len(Take(quick_reference.top_rules, 5))
           /\ \A k \in 1..Len(lines) :
                /\ lines[k].ref = k
                /\ lines[k].len = 3 + Len(quick_reference.top_rules[k])
    /\ token_count = SumTokens(PartsOf("header") \o PartsOf("module") \o PartsOf("rule"))
    /\ pc = "done" =>
         context_parts[Len(context_parts)].len = 797 + Len(task) + CommaLen(token_count)
C18_EstimateKept == pc = "quick_ref" => token_count' = token_count
\* C18: the quick-reference section is in the digest exactly when the
\* quick-reference document exists and the running estimate after the rules
\* section is strictly below 90% of the budget; it then lists at most the
\* first 5 top_rules in stored order; the step that appends it leaves the
\* running estimate as it is, and the footer reports the estimate of the
\* header, the module blocks and the rule lines only.
C18_QuickReference == []C18_Section /\ [][C18_EstimateKept]_vars
C18_Witness ==
  /\ pc = "done"
  /\ quick_reference.exists
  /\ Len(quick_reference.top_rules) = 5
  /\ Len(PartsOf("quick_ref_title")) = 1
  /\ Len(PartsOf("top_rule")) = 5
  /\ 10 * token_count < 9 * max_tokens

(***************************************************************************)
(* save_context, called by interactive_mode after every generate_context.  *)
(***************************************************************************)
MaxSaves == 3

\* the text handed to save_context: the joined parts of the digest of task
Context == [task |-> task, parts |-> context_parts]

\* slip: the backup is made only while there is none
SaveBackupOnce ==
  /\ pc = "done"
  /\ IF claude_context_md.exists /\ ~claude_context_bak.exists
       THEN /\ claude_context_bak' = claude_context_md
            /\ claude_context_md' = [exists |-> FALSE]
       ELSE UNCHANGED <<claude_context_md, claude_context_bak>>
  /\ pc' = "write"
  /\ UNCHANGED <<taskVars, max_tokens, modules_dir, rules_json, quick_reference, saved,
                 genVars, parseVars, scanVars, fileVars, indexVars, runVars>>

\* lines 265-274: an existing digest file is renamed to the backup path
SaveBackup ==
  /\ pc = "done"
  /\ IF claude_context_md.exists
       THEN /\ claude_context_bak' = claude_context_md
            /\ claude_context_md' = [exists |-> FALSE]
       ELSE UNCHANGED <<claude_context_md, claude_context_bak>>
  /\ pc' = "write"
  /\ UNCHANGED <<taskVars, max_tokens, modules_dir, rules_json, quick_reference, saved,
                 genVars, parseVars, scanVars, fileVars, indexVars, runVars>>

\* lines 276-283: the context is written to the digest path and the call returns
SaveWrite ==
  /\ pc = "write"
  /\ claude_context_md' = [exists |-> TRUE, text |-> Context]
  /\ saved' = Append(saved, Context)
  /\ pc' = "saved"
  /\ UNCHANGED <<taskVars, max_tokens, modules_dir, rules_json, quick_reference,
                 claude_context_bak, genVars, parseVars, scanVars, fileVars, indexVars, runVars>>

\* interactive_mode, lines 298-314: the next description is read and generate_context starts
EnterTask ==
  /\ pc = "saved"
  /\ Len(saved) < MaxSaves
  /\ task' \in GenTasks
  /\ pc' = "start"
  /\ task_lower' = <<>>
  /\ relevance_scores' = <<>>
  /\ relevant_modules' = <<>>
  /\ context_parts' = <<>>
  /\ token_count' = 0
  /\ mod_i' = 0
  /\ rules' = <<>>
  /\ rule_i' = 0
  /\ UNCHANGED <<prev_task, prev_scores, n_added, diskVars, indexVars, runVars, parseVars, scanVars>>

InitSave ==
  /\ InitGen
  /\ modules_dir = [m \in {"Core", "Features"} |-> ModuleSummary(m, 1, 12, 1, 0, 10)]
  /\ rules_json = RulesDoc(3, 2, 40)
  /\ quick_reference = [exists |-> FALSE]

NextSave ==
  \/ NextGen
  \/ SaveBackup
  \/ SaveWrite
  \/ EnterTask

SpecSave == InitSave /\ [][NextSave]_vars

\* whenever no save_context call is running: the digest file holds the context of the
\* latest call that returned and, from the second call on, the backup file holds the
\* context of the call before it, so that an older context is in a file only when its
\* text equals one of those two
C13_Files ==
  pc # "write" =>
    /\ saved = <<>> => ~claude_context_md.exists /\ ~claude_context_bak.exists
    /\ saved # <<>> => claude_context_md = [exists |-> TRUE, text |-> saved[Len(saved)]]
    /\ Len(saved) = 1 => ~claude_context_bak.exists
    /\ Len(saved) >= 2 => claude_context_bak = [exists |-> TRUE, text |-> saved[Len(saved) - 1]]
    /\ \A k \in 1..Len(saved) :
         [exists |-> TRUE, text |-> saved[k]] \in {claude_context_md, claude_context_bak}
           => \E j \in {Len(saved) - 1, Len(saved)} : j >= 1 /\ saved[j] = saved[k]

\* a step that writes the digest file finds no file at the digest path, the file of the
\* call before having been renamed to the backup path already
C13_RenameFirst ==
  (claude_context_md' # claude_context_md /\ claude_context_md'.exists) =>
    /\ ~claude_context_md.exists
    /\ saved # <<>> => claude_context_bak = [exists |-> TRUE, text |-> saved[Len(saved)]]

\* C13: after n >= 1 save_context calls the digest file holds the latest context and,
\* when n >= 2, the backup file holds exactly the context of the call before; contexts of
\* earlier calls are in neither file; the rename happens before the new digest is written
C13_DigestAndBackup == []C13_Files /\ [][C13_RenameFirst]_vars

\* three calls with three different descriptions have returned
C13_Witness ==
  /\ pc = "saved"
  /\ Len(saved) = 3
  /\ saved[1].task = Tasks.theme
  /\ saved[2].task = Tasks.dark_mode
  /\ saved[3].task = Tasks.no_keyword
  /\ claude_context_md.text = saved[3]
  /\ claude_context_bak.text = saved[2]

(***************************************************************************)
(* rules_indexer.py: index_all_rules over the documents of the rules       *)
(* folder.                                                                 *)
(***************************************************************************)
Priorities == {"critical", "high", "medium", "low"}

RECURSIVE Join(_, _)
Join(texts, sep) ==
  IF Len(texts) = 0 THEN <<>>
  ELSE IF Len(texts) = 1 THEN texts[1]
  ELSE texts[1] \o sep \o Join(SubSeq(texts, 2, Len(texts)), sep)

categorize_pattern(text) ==
  LET text_lower == lower(text)
  IN  IF Contains(<<"c","o","m","p","o","n","e","n","t">>, text_lower) THEN "component"
      ELSE IF Contains(<<"n","a","v","i","g","a","t","i","o","n">>, text_lower) \/ Contains(<<"r","o","u","t","i","n","g">>, text_lower)
        THEN "navigation"
      ELSE IF Contains(<<"s","t","a","t","e">>, text_lower) \/ Contains(<<"r","e","d","u","c","e","r">>, text_lower)
        THEN "state-management"
      ELSE IF Contains(<<"n","e","t","w","o","r","k">>, text_lower) \/ Contains(<<"a","p","i">>, text_lower)
        THEN "networking"
      ELSE IF Contains(<<"s","t","o","r","a","g","e">>, text_lower) \/ Contains(<<"d","a","t","a","b","a","s","e">>, text_lower)
        THEN "persistence"
      ELSE "general"

pattern_keywords ==
  { <<"p","a","t","t","e","r","n">>,
    <<"a","r","c","h","i","t","e","c","t","u","r","e">>,
    <<"s","t","r","u","c","t","u","r","e">>,
    <<"d","e","s","i","g","n">>,
    <<"a","p","p","r","o","a","c","h">>,
    <<"s","t","r","a","t","e","g","y">>,
    <<"m","e","t","h","o","d","o","l","o","g","y">> }

\* lines 88-107: the patterns found at line i of lines
PatternsAt(lines, i) ==
  IF \E keyword \in pattern_keywords : Contains(keyword, lower(lines[i]))
    THEN LET NonEmpty(text) == Len(text) > 0
             last == IF i + 2 < Len(lines) THEN i + 2 ELSE Len(lines)
             context_lines ==
               SelectSeq([j \in 1..(last - i + 1) |-> Strip(lines[i + j - 1], Whitespace)], NonEmpty)
             pattern_text == Join(context_lines, <<" ">>)
         IN  IF Len(context_lines) > 0 /\ Len(pattern_text) > 20 /\ Len(pattern_text) < 500
               THEN << [description |-> Take(pattern_text, 200),
                        category |-> categorize_pattern(pattern_text)] >>
               ELSE <<>>
    ELSE <<>>

\* lines 88-109: the patterns found from line i of lines on
RECURSIVE extract_patterns(_, _)
extract_patterns(lines, i) ==
  IF i > Len(lines) THEN <<>>
  ELSE PatternsAt(lines, i) \o extract_patterns(lines, i + 1)

\* lines 179-183: the patterns ps are filed under their categories
RECURSIVE AddPatterns(_, _)
AddPatterns(ap, ps) ==
  IF Len(ps) = 0 THEN ap
  ELSE LET p == ps[1]
           added ==
             IF \E k \in 1..Len(ap) : ap[k].category = p.category
               THEN [k \in 1..Len(ap) |->
                       IF ap[k].category = p.category
                         THEN [category |-> ap[k].category,
                               descriptions |-> Append(ap[k].descriptions, p.description)]
                         ELSE ap[k]]
               ELSE Append(ap, [category |-> p.category, descriptions |-> <<p.description>>])
       IN  AddPatterns(added, SubSeq(ps, 2, Len(ps)))

\* slip: the whole text is the key of a rule
RECURSIVE UniqueByText(_, _, _, _)
UniqueByText(rs, i, seen, out) ==
  IF i > Len(rs) THEN out
  ELSE IF rs[i].text \in seen
    THEN UniqueByText(rs, i + 1, seen, out)
    ELSE UniqueByText(rs, i + 1, seen \cup {rs[i].text}, Append(out, rs[i]))

\* lines 188-194: unique_rules after the rules rs[i..] are passed, seen and out so far
RECURSIVE Unique(_, _, _, _)
Unique(rs, i, seen, out) ==
  IF i > Len(rs) THEN out
  ELSE IF Take(rs[i].text, 50) \in seen
    THEN Unique(rs, i + 1, seen, out)
    ELSE Unique(rs, i + 1, seen \cup {Take(rs[i].text, 50)}, Append(out, rs[i]))

\* the documents of the rules folder
RuleFiles ==
  LET Alphabet ==
        <<"a","b","c","d","e","f","g","h","i","j","k","l","m","n","o","p","q","r","s","t","u","v">>
  IN
  [ \* 22 list items with 22 different texts
    many |->
      [name |-> "many.md", readable |-> TRUE,
       content |-> [i \in 1..22 |-> <<"-", " ">> \o Rep(Alphabet[i], 11)]],
    \* two list items that differ after their 50th character; the first list item of many
    twins |->
      [name |-> "twins.md", readable |-> TRUE,
       content |-> << <<"-", " ">> \o Rep("a", 50) \o <<"x">>,
                      <<"-", " ">> \o Rep("a", 50) \o <<"y">>,
                      <<"-", " ">> \o Rep("a", 11) >>],
    \* a CRITICAL marker, a list item with the first 50 characters of the twins,
    \* "The design approach keeps state in reducers", "## Naming", a list item with MUST
    must |->
      [name |-> "must.md", readable |-> TRUE,
       content |-> << Lines.critical,
                      <<"-", " ">> \o Rep("a", 50) \o <<"z">>,
                      <<"T","h","e"," ","d","e","s","i","g","n"," ","a","p","p","r","o","a","c","h"," ","k","e","e","p","s"," ","s","t","a","t","e"," ","i","n"," ","r","e","d","u","c","e","r","s">>,
                      Lines.header,
                      Lines.item_must >>],
    \* a file that is not valid UTF-8
    undecodable |->
      [name |-> "binary.md", readable |-> FALSE, content |-> <<>>] ]

RulesDirs ==
  {[exists |-> FALSE]} \cup {[exists |-> TRUE, files |-> F] : F \in SUBSET {RuleFiles[k] : k \in DOMAIN RuleFiles}}

\* the orders in which glob may yield the files F
GlobOrders(F) ==
  { order \in [1..Cardinality(F) -> F] : \A i, j \in 1..Cardinality(F) : order[i] = order[j] => i = j }

\* lines 148-168
IndexBegin ==
  /\ pc = "index"
  /\ all_rules' = [b \in Priorities |-> <<>>]
  /\ all_patterns' = <<>>
  /\ encountered' = <<>>
  /\ IF rules_dir.exists
       THEN /\ rule_files' \in GlobOrders(rules_dir.files)
            /\ rfile_i' = 1
            /\ pc' = "index_file"
       ELSE /\ rule_files' = <<>>
            /\ rfile_i' = 0
            /\ pc' = "indexed"
  /\ UNCHANGED <<taskVars, diskVars, genVars, parseVars, scanVars, runVars>>

\* lines 170-171 and 130-132: the next document is read
IndexRead ==
  /\ pc = "index_file"
  /\ rfile_i <= Len(rule_files)
  /\ rule_files[rfile_i].readable
  /\ content' = rule_files[rfile_i].content
  /\ pc' = "parse"
  /\ UNCHANGED <<taskVars, diskVars, genVars, line_i, current_category, current_priority, rule_list,
                 scanVars, indexVars, runVars>>

\* lines 144-146: a document that cannot be read contributes nothing
IndexUnreadable ==
  /\ pc = "index_file"
  /\ rfile_i <= Len(rule_files)
  /\ ~rule_files[rfile_i].readable
  /\ rfile_i' = rfile_i + 1
  /\ UNCHANGED <<pc, taskVars, diskVars, genVars, parseVars, scanVars,
                 rule_files, all_rules, all_patterns, encountered, runVars>>

\* lines 136-142 and 173-183: the rules and patterns of the document are filed
IndexFile ==
  /\ pc = "parsed"
  /\ \E rules_of_file \in
         {[k \in 1..Len(rule_list) |->
             [rule_list[k] EXCEPT !.source_file = rule_files[rfile_i].name]]} :
       /\ all_rules' =
            [b \in Priorities |->
               LET InBucket(rule) == rule.priority = b
               IN  all_rules[b] \o SelectSeq(rules_of_file, InBucket)]
       /\ encountered' = encountered \o rules_of_file
  /\ all_patterns' = AddPatterns(all_patterns, extract_patterns(content, 1))
  /\ rfile_i' = rfile_i + 1
  /\ pc' = "index_file"
  /\ UNCHANGED <<taskVars, diskVars, genVars, parseVars, scanVars, rule_files, runVars>>

\* lines 185-197
IndexReturn ==
  /\ pc = "index_file"
  /\ rfile_i > Len(rule_files)
  /\ all_rules' = [b \in Priorities |-> Take(Unique(all_rules[b], 1, {}, <<>>), 20)]
  /\ pc' = "indexed"
  /\ UNCHANGED <<taskVars, diskVars, genVars, parseVars, scanVars,
                 rule_files, rfile_i, all_patterns, encountered, runVars>>

InitIndex ==
  /\ pc = "index"
  /\ NoTask
  /\ NoGen
  /\ NoParse
  /\ NoScan
  /\ max_tokens = 0
  /\ modules_dir = <<>>
  /\ rules_json = [exists |-> FALSE]
  /\ quick_reference = [exists |-> FALSE]
  /\ NoSave
  /\ rules_dir \in RulesDirs
  /\ patterns_json = [exists |-> FALSE]
  /\ symbols_json = [exists |-> FALSE]
  /\ index_json = [exists |-> FALSE]
  /\ required_paths = TRUE
  /\ rule_files = <<>>
  /\ rfile_i = 0
  /\ all_rules = <<>>
  /\ all_patterns = <<>>
  /\ encountered = <<>>
  /\ stats = [modules_indexed |-> 0, rules_indexed |-> 0, files_processed |-> 0, errors |-> <<>>]
  /\ result = [success |-> "None", exit_code |-> "None"]
  /\ runs = 0

NextIndex ==
  \/ IndexBegin
  \/ IndexRead
  \/ IndexUnreadable
  \/ ParseBegin
  \/ ParseLine
  \/ ParseReturn
  \/ IndexFile
  \/ IndexReturn

SpecIndex == InitIndex /\ [][NextIndex]_vars

(***************************************************************************)
(* Properties of the buckets of index_all_rules.                           *)
(***************************************************************************)
\* the first 50 characters of the text of a rule
Prefix(rule) == Take(rule.text, 50)

\* the rules of priority b in the order they were met
Met(b) ==
  LET InBucket(rule) == rule.priority = b
  IN  SelectSeq(encountered, InBucket)

\* positions of the rules of E that no earlier rule of E shares its prefix with
FirstMet(E) == {i \in 1..Len(E) : \A j \in 1..(i - 1) : Prefix(E[j]) # Prefix(E[i])}

\* C19: after index_all_rules every bucket holds only rules of its priority, at most 20
\* of them, no two with the same first 50 characters of text; the rules kept are the
\* first met of every prefix, in the order they were met
C19_Buckets ==
  pc = "indexed" =>
    \A b \in Priorities :
      \A K \in {all_rules[b]} : \A E \in {Met(b)} : \A F \in {FirstMet(E)} :
        /\ \A n \in 1..Len(K) : K[n].priority = b
        /\ Len(K) <= 20
        /\ \A m, n \in 1..Len(K) : Prefix(K[m]) = Prefix(K[n]) => m = n
        /\ Len(K) = IF Cardinality(F) < 20 THEN Cardinality(F) ELSE 20
        /\ \A n \in 1..Len(K) :
             \E i \in F : Cardinality({j \in F : j <= i}) = n /\ K[n] = E[i]

\* twins.md, must.md and many.md were indexed in this order: 25 medium rules were met,
\* two of them repeat an earlier prefix, and 20 of the other 23 are kept
C19_Witness ==
  /\ pc = "indexed"
  /\ rule_files = <<RuleFiles.twins, RuleFiles.must, RuleFiles.many>>
  /\ Len(Met("medium")) = 25
  /\ Cardinality(FirstMet(Met("medium"))) = 23
  /\ Len(all_rules.medium) = 20
  /\ all_rules.medium[1].text = Rep("a", 50) \o <<"x">>
  /\ all_rules.medium[2].text = Rep("a", 11)
  /\ all_rules.medium[2].source_file = "twins.md"
  /\ all_rules.medium[3].text = Rep("b", 11)
  /\ Len(all_rules.critical) = 2
  /\ all_rules.critical[1].text = Rep("a", 50) \o <<"z">>

(***************************************************************************)
(* master_indexer.py: one orchestrator process after another, over source  *)
(* trees and rule documents that change between the runs.                  *)
(***************************************************************************)
MaxRuns == 2

\* the name of module_name in f"{module_name}.json"
ModuleKey(module_name) ==
  CASE module_name = <<"C","o","r","e">> -> "Core"
    [] module_name = <<"F","e","a","t","u","r","e","s">> -> "Features"
    [] module_name = <<"S","e","r","v","i","c","e","s">> -> "Services"
    [] module_name = <<"T","h","e","m","e">> -> "Theme"
    [] module_name = <<"N","e","t","w","o","r","k">> -> "Network"
    [] module_name = <<"S","t","o","r","a","g","e">> -> "Storage"
    [] module_name = <<"M","o","n","e","t","i","z","a","t","i","o","n">> -> "Monetization"
    [] module_name = <<"U","t","i","l","i","t","i","e","s">> -> "Utilities"
    [] OTHER -> "Misc"

\* scanner.py lines 191-199: the summaries save_module_data can write for module_data;
\* the lists key_symbols and dependencies are kept as the sets of their entries
ModuleDocs(module_data) ==
  { [name |-> ModuleKey(module_data.name),
     purpose |-> get_module_purpose(ModuleKey(module_data.name)),
     total_files |-> Len(module_data.files),
     total_loc |-> module_data.total_loc,
     key_symbols |-> syms,
     dependencies |-> deps,
     files |-> Take([i \in 1..Len(module_data.files) |-> module_data.files[i].name], 20)]
    : syms \in Kept(module_data.key_symbols, 10), deps \in Kept(module_data.dependencies, 10) }

RECURSIVE SumOver(_, _)
SumOver(ms, field) ==
  IF Len(ms) = 0 THEN 0
  ELSE (IF field = "files" THEN Len(ms[1].files) ELSE ms[1].total_loc)
         + SumOver(SubSeq(ms, 2, Len(ms)), field)

\* scanner.py lines 221-230: the master index of the modules ms, written at time now
MasterIndex(ms, now) ==
  [exists |-> TRUE,
   modules |-> Len(ms),
   module_list |-> [k \in 1..Len(ms) |-> ModuleKey(ms[k].name)],
   total_files |-> SumOver(ms, "files"),
   total_loc |-> SumOver(ms, "loc"),
   indexed_at |-> now,
   config_version |-> "1.0"]

\* rules_indexer.py lines 201-203: rules.json
RulesJson(buckets) ==
  [exists |-> TRUE, critical |-> buckets.critical, high |-> buckets.high,
   medium |-> buckets.medium, low |-> buckets.low]

\* main, lines 216-218, and __init__: a new process starts; the source tree and the rules
\* folder are what they have become since the run before
RunStart ==
  /\ pc = "idle"
  /\ runs < MaxRuns
  /\ runs' = runs + 1
  /\ swift_files' \in { <<Files.generated, Files.undecodable, Files.store>>, <<Files.app>>,
                       <<Files.app, Files.store>> }
  /\ rules_dir' \in { [exists |-> FALSE],
                      [exists |-> TRUE, files |-> {RuleFiles.must}],
                      [exists |-> TRUE, files |-> {RuleFiles.twins, RuleFiles.undecodable}] }
  /\ required_paths' \in BOOLEAN
  /\ stats' = [modules_indexed |-> 0, rules_indexed |-> 0, files_processed |-> 0, errors |-> <<>>]
  /\ result' = [success |-> "None", exit_code |-> "None"]
  /\ file_i' = 0
  /\ modules' = <<>>
  /\ all_symbols' = <<>>
  /\ rule_files' = <<>>
  /\ rfile_i' = 0
  /\ all_rules' = <<>>
  /\ all_patterns' = <<>>
  /\ encountered' = <<>>
  /\ content' = <<>>
  /\ line_i' = 0
  /\ current_category' = <<>>
  /\ current_priority' = ""
  /\ rule_list' = <<>>
  /\ pc' = "requirements"
  /\ UNCHANGED <<taskVars, genVars, max_tokens, modules_dir, rules_json, quick_reference, saveVars,
                 patterns_json, symbols_json, index_json>>

\* lines 30-60 and 190-193
CheckRequirements ==
  /\ pc = "requirements"
  /\ IF required_paths
       THEN /\ pc' = "scan"
            /\ UNCHANGED result
       ELSE /\ pc' = "exit"
            /\ result' = [result EXCEPT !.success = "False"]
  /\ UNCHANGED <<taskVars, diskVars, genVars, parseVars, scanVars, indexVars, stats, runs>>

\* scanner.py lines 184-206
save_module_data ==
  /\ pc = "scanned"
  /\ \E written \in [1..Len(modules) -> UNION {ModuleDocs(modules[k]) : k \in 1..Len(modules)}] :
       /\ \A k \in 1..Len(modules) : written[k] \in ModuleDocs(modules[k])
       /\ modules_dir' =
            [name \in DOMAIN modules_dir \cup {written[k].name : k \in 1..Len(modules)} |->
               IF \E k \in 1..Len(modules) : written[k].name = name
                 THEN written[CHOOSE k \in 1..Len(modules) : written[k].name = name]
                 ELSE modules_dir[name]]
  /\ pc' = "symbols"
  /\ UNCHANGED <<taskVars, genVars, parseVars, scanVars, indexVars, runVars,
                 max_tokens, rules_json, quick_reference, saveVars, fileVars>>

\* scanner.py lines 208-217
save_symbols_cache ==
  /\ pc = "symbols"
  /\ symbols_json' = [exists |-> TRUE, symbols |-> all_symbols]
  /\ pc' = "master"
  /\ UNCHANGED <<taskVars, genVars, parseVars, scanVars, indexVars, runVars,
                 max_tokens, modules_dir, rules_json, quick_reference, saveVars,
                 rules_dir, patterns_json, index_json, required_paths>>

\* slip: the master index on disk is loaded and its keys are overwritten one by one
save_master_index_merged ==
  /\ pc = "master"
  /\ index_json' =
       [k \in DOMAIN index_json \cup DOMAIN MasterIndex(modules, runs) |->
          IF k \in DOMAIN MasterIndex(modules, runs)
            THEN MasterIndex(modules, runs)[k] ELSE index_json[k]]
  /\ pc' = "scanner_done"
  /\ UNCHANGED <<taskVars, genVars, parseVars, scanVars, indexVars, runVars,
                 max_tokens, modules_dir, rules_json, quick_reference, saveVars,
                 rules_dir, patterns_json, symbols_json, required_paths>>

\* scanner.py lines 219-237
save_master_index ==
  /\ pc = "master"
  /\ index_json' = MasterIndex(modules, runs)
  /\ pc' = "scanner_done"
  /\ UNCHANGED <<taskVars, genVars, parseVars, scanVars, indexVars, runVars,
                 max_tokens, modules_dir, rules_json, quick_reference, saveVars,
                 rules_dir, patterns_json, symbols_json, required_paths>>

\* lines 68-74: run_scanner returns True
ScannerDone ==
  /\ pc = "scanner_done"
  /\ stats' = [stats EXCEPT !.modules_indexed = Len(modules),
                            !.files_processed = SumOver(modules, "files")]
  /\ pc' = "index"
  /\ UNCHANGED <<taskVars, diskVars, genVars, parseVars, scanVars, indexVars, result, runs>>

\* slip: the run goes on after a failure of the scanner
ScannerFailedContinue ==
  /\ pc \in {"scan", "scanned", "symbols", "master"}
  /\ stats' = [stats EXCEPT !.errors = Append(@, "Scanner failed")]
  /\ pc' = "index"
  /\ UNCHANGED <<taskVars, diskVars, genVars, parseVars, scanVars, indexVars, result, runs>>

\* lines 76-80 and 197-200: the scanner raises, when it loads the configuration or opens
\* one of the files it writes; run_scanner returns False and run returns False
ScannerFailed ==
  /\ pc \in {"scan", "scanned", "symbols", "master"}
  /\ stats' = [stats EXCEPT !.errors = Append(@, "Scanner failed")]
  /\ result' = [result EXCEPT !.success = "False"]
  /\ pc' = "exit"
  /\ UNCHANGED <<taskVars, diskVars, genVars, parseVars, scanVars, indexVars, runs>>

\* rules_indexer.py lines 199-215 (run, lines 258-261)
save_rules ==
  /\ pc = "indexed"
  /\ rules_json' = RulesJson(all_rules)
  /\ patterns_json' = [exists |-> TRUE, patterns |-> all_patterns]
  /\ pc' = "quick"
  /\ UNCHANGED <<taskVars, genVars, parseVars, scanVars, indexVars, runVars,
                 max_tokens, modules_dir, quick_reference, saveVars,
                 rules_dir, symbols_json, index_json, required_paths>>

\* rules_indexer.py run, lines 263-275
SaveQuickReference ==
  /\ pc = "quick"
  /\ quick_reference' = create_quick_reference(RulesJson(all_rules))
  /\ pc' = "rules_done"
  /\ UNCHANGED <<taskVars, genVars, parseVars, scanVars, indexVars, runVars,
                 max_tokens, modules_dir, rules_json, saveVars, fileVars>>

\* lines 94-99: run_rules_indexer returns True
RulesDone ==
  /\ pc = "rules_done"
  /\ stats' = [stats EXCEPT !.rules_indexed =
                 Len(all_rules.critical) + Len(all_rules.high)
                   + Len(all_rules.medium) + Len(all_rules.low)]
  /\ pc' = "update"
  /\ UNCHANGED <<taskVars, diskVars, genVars, parseVars, scanVars, indexVars, result, runs>>

\* slip: a failure of the rules indexer ends the run like a failure of the scanner
RulesIndexerFailedAbort ==
  /\ pc \in {"index", "indexed", "quick"}
  /\ stats' = [stats EXCEPT !.errors = Append(@, "Rules indexer failed")]
  /\ result' = [result EXCEPT !.success = "False"]
  /\ pc' = "exit"
  /\ UNCHANGED <<taskVars, diskVars, genVars, parseVars, scanVars, indexVars, runs>>

\* lines 101-106: the rules indexer raises; run_rules_indexer records it and returns True
RulesIndexerFailed ==
  /\ pc \in {"index", "indexed", "quick"}
  /\ stats' = [stats EXCEPT !.errors = Append(@, "Rules indexer failed")]
  /\ pc' = "update"
  /\ UNCHANGED <<taskVars, diskVars, genVars, parseVars, scanVars, indexVars, result, runs>>

\* lines 110-143
update_master_index ==
  /\ pc = "update"
  /\ LET Put(doc, key, value) ==
           [k \in DOMAIN doc \cup {key} |-> IF k = key THEN value ELSE doc[k]]
     IN
     \E index \in {IF index_json.exists THEN index_json ELSE [exists |-> TRUE]} :
     \E updated \in
         { Put(Put(index, "last_full_index", runs), "stats",
               [modules_indexed |-> stats.modules_indexed,
                files_processed |-> stats.files_processed,
                rules_indexed |-> stats.rules_indexed]) } :
       index_json' = IF stats.errors # <<>> THEN Put(updated, "errors", stats.errors) ELSE updated
  /\ pc' = "summary"
  /\ UNCHANGED <<taskVars, genVars, parseVars, scanVars, indexVars, runVars,
                 max_tokens, modules_dir, rules_json, quick_reference, saveVars,
                 rules_dir, patterns_json, symbols_json, required_paths>>

\* lines 208-213: the summary is printed and run returns success
RunReturn ==
  /\ pc = "summary"
  /\ result' = [result EXCEPT !.success = "True"]
  /\ pc' = "exit"
  /\ UNCHANGED <<taskVars, diskVars, genVars, parseVars, scanVars, indexVars, stats, runs>>

\* main, line 222: sys.exit(0 if success else 1)
Exit ==
  /\ pc = "exit"
  /\ result' = [result EXCEPT !.exit_code = IF result.success = "True" THEN 0 ELSE 1]
  /\ pc' = "idle"
  /\ UNCHANGED <<taskVars, diskVars, genVars, parseVars, scanVars, indexVars, stats, runs>>

InitRun ==
  /\ pc = "idle"
  /\ NoTask
  /\ NoDisk
  /\ NoGen
  /\ NoParse
  /\ NoScan

NextRun ==
  \/ RunStart
  \/ CheckRequirements
  \/ ScanBegin
  \/ ScanIgnored
  \/ ScanFailed
  \/ ScanAdd
  \/ ScanReturn
  \/ save_module_data
  \/ save_symbols_cache
  \/ save_master_index
  \/ ScannerDone
  \/ ScannerFailed
  \/ IndexBegin
  \/ IndexRead
  \/ IndexUnreadable
  \/ ParseBegin
  \/ ParseLine
  \/ ParseReturn
  \/ IndexFile
  \/ IndexReturn
  \/ save_rules
  \/ SaveQuickReference
  \/ RulesDone
  \/ RulesIndexerFailed
  \/ update_master_index
  \/ RunReturn
  \/ Exit

SpecRun == InitRun /\ [][NextRun]_vars

(***************************************************************************)
(* Properties of the orchestrator runs.                                    *)
(***************************************************************************)
\* the documents under .context that the indexers write
Documents == <<modules_dir, symbols_json, index_json, rules_json, patterns_json, quick_reference>>

Has(errors, message) == \E i \in 1..Len(errors) : errors[i] = message

\* the latest run has returned from MasterIndexer.run
Returned == runs >= 1 /\ pc \in {"exit", "idle"}

\* C12: when a run has ended without any error, every persisted document is the one the
\* scan and the rules indexing of that run produced, and modules/ holds a summary for
\* exactly the modules of that scan
C12_OnlyLatestScan ==
  (Returned /\ result.success = "True" /\ stats.errors = <<>>) =>
    /\ DOMAIN modules_dir = {ModuleKey(modules[k].name) : k \in 1..Len(modules)}
    /\ \A k \in 1..Len(modules) : modules_dir[ModuleKey(modules[k].name)] \in ModuleDocs(modules[k])
    /\ symbols_json = [exists |-> TRUE, symbols |-> all_symbols]
    /\ index_json.indexed_at = runs
    /\ index_json.module_list = [k \in 1..Len(modules) |-> ModuleKey(modules[k].name)]
    /\ rules_json = RulesJson(all_rules)
    /\ patterns_json = [exists |-> TRUE, patterns |-> all_patterns]
    /\ quick_reference = create_quick_reference(RulesJson(all_rules))

\* a run that has returned returned False exactly when the requirements were not met or
\* the scanner raised; then the rules indexer was not started and the master index was
\* not updated; the exit code is 0 for True and 1 for False
C14_Outcome ==
  Returned =>
    /\ result.success = "False" <=> (~required_paths \/ Has(stats.errors, "Scanner failed"))
    /\ result.success = "False" =>
         /\ rule_files = <<>> /\ all_rules = <<>> /\ stats.rules_indexed = 0
         /\ ~Has(stats.errors, "Rules indexer failed")
         /\ index_json.exists /\ "last_full_index" \in DOMAIN index_json
              => index_json.last_full_index # runs
    /\ pc = "idle" => result.exit_code = IF result.success = "True" THEN 0 ELSE 1

\* the step at which run returns False, and the exit of the process, write no document
C14_Kept ==
  ((result'.success = "False" /\ result.success # "False") \/ pc = "exit") => Documents' = Documents

\* C14: a failure of the scanner or of the requirements check makes run return False and
\* the process exit with code 1, without the rules indexer, without update_master_index,
\* and with the documents on disk as they were; a run whose scanner succeeds exits with 0
C14_ScannerFailureAborts == []C14_Outcome /\ [][C14_Kept]_vars

\* the second run wrote the module summaries and the symbol lookup, then the scanner
\* raised before the master index was written: the index is still that of the first run
C14_Witness ==
  /\ pc = "idle"
  /\ runs = 2
  /\ result.exit_code = 1
  /\ stats.errors = <<"Scanner failed">>
  /\ Len(modules) = 2
  /\ symbols_json = [exists |-> TRUE, symbols |-> all_symbols]
  /\ index_json.exists
  /\ index_json.indexed_at = 1
  /\ index_json.modules = 1

\* once the rules indexer has raised, the run goes on: the updated master index carries
\* the errors of the run, run returns True and the exit code is 0
C15_Outcome ==
  (runs >= 1 /\ Has(stats.errors, "Rules indexer failed")) =>
    /\ pc \in {"update", "summary", "exit", "idle"}
    /\ pc # "update" =>
         /\ index_json.exists
         /\ "errors" \in DOMAIN index_json
         /\ index_json.errors = stats.errors
         /\ index_json.last_full_index = runs
    /\ pc \in {"exit", "idle"} => result.success = "True"
    /\ pc = "idle" => result.exit_code = 0

\* the step that records the failure of the rules indexer leads to update_master_index
C15_Caught ==
  (~Has(stats.errors, "Rules indexer failed") /\ Has(stats'.errors, "Rules indexer failed")) =>
    /\ pc' = "update"
    /\ stats'.errors = Append(stats.errors, "Rules indexer failed")
    /\ result' = result
    /\ Documents' = Documents

Updated == runs >= 1 /\ (pc = "summary" \/ (pc \in {"exit", "idle"} /\ result.success = "True"))

\* the errors field of the master index is the error list of the run that updated it
C20_Errors ==
  Updated =>
    /\ index_json.exists
    /\ index_json.last_full_index = runs
    /\ index_json.indexed_at = runs
    /\ IF stats.errors = <<>>
         THEN "errors" \notin DOMAIN index_json
         ELSE "errors" \in DOMAIN index_json /\ index_json.errors = stats.errors

\* update_master_index keeps every key the scanner wrote (the counts, the module list)
C20_ScannerKeysKept ==
  pc = "update" =>
    \A k \in DOMAIN index_json \ {"last_full_index", "stats", "errors"} :
      k \in DOMAIN index_json' /\ index_json'[k] = index_json[k]

\* C20: when a run has updated the master index, its errors field holds exactly the errors
\* of that run and is absent when there were none, whatever earlier runs recorded; the
\* counts and the module list the scanner wrote are unchanged by update_master_index
C20_ErrorsOfLatestRun == []C20_Errors /\ [][C20_ScannerKeysKept]_vars

\* the second run ended without error over a tree that lost its Misc module: the index
\* lists one module and has no errors field
C20_Witness ==
  /\ pc = "idle"
  /\ runs = 2
  /\ result = [success |-> "True", exit_code |-> 0]
  /\ stats.errors = <<>>
  /\ "errors" \notin DOMAIN index_json
  /\ index_json.module_list = <<"Core">>
  /\ index_json.stats.modules_indexed = 1
  /\ "Misc" \in DOMAIN modules_dir

==============================================================================
